---- MODULE Spec2Model ----
(***************************************************************************)
(* Email sequence pipeline: Scheduler -> Outbox -> Pump -> broker queue -> *)
(* Worker -> LeadSequenceState.  One enrollment (lead, sequence) is driven *)
(* through a sequence of NSteps steps.  Spec runs two Schedulers, one Pump *)
(* and two Workers from the enrollment's creation; PumpSpec runs two Pumps *)
(* against a seeded Outbox table; SchedSpec runs the Schedulers alone,     *)
(* TxSpec with the enqueue transaction statement by statement, QuerySpec   *)
(* from any enrollment row; StopSpec adds an actor that pauses or fails    *)
(* the enrollment; HappySpec is the pipeline without failures under weak   *)
(* fairness; WorkerSpec runs the Workers on messages of any shape,         *)
(* RetrySpec with the retry copy and the ack as two steps, ShutdownSpec    *)
(* stops them by a signal; KeySpec calls makeIdemKey.  SendSpec is one     *)
(* call of EmailService.sendEmail, InstanceSpec the calls of               *)
(* RabbitMQService.getInstance of one process, TemplateSpec the runs of    *)
(* processTemplate on any template.  Time is counted in whole hours.       *)
(***************************************************************************)
EXTENDS Integers, Sequences, FiniteSets, Bags, TLC

\* ------------------------------------------------------------------ bounds
NSteps == 2           \* steps 1..NSteps of the sequence (max(stepNumber))
MaxTime == 4          \* the clock stops at MaxTime hours
MinIntervalMin == 0   \* the shortest minIntervalMin of a step, in minutes
PumpRows == 11        \* rows of the seeded Outbox table of PumpSpec
MaxPumpFailures == 2  \* failed hand-offs PumpSpec follows per run
MaxSends == 2         \* hand-overs counted per step; the count stays at MaxSends
NCallers == 3         \* calls of getInstance made in one process
MaxTokens == 2        \* pieces (text, placeholder) of a template
MaxRuns == 2          \* runs of processTemplate on one template
MaxQueue == 3         \* RetrySpec follows a crash while fewer than MaxQueue messages exist

\* ------------------------------------------------------- program constants
BATCH == 50                    \* getPendingLeads(50)
CLAIM == 10                    \* getPendingOutboxJobs(10)
maxRetries == 3                \* RabbitMQ.maxRetries
retryAttemptsDefault == 3      \* EmailService: config.retryAttempts ?? 3
retryDelayDefault == 1000      \* EmailService: config.retryDelay ?? 1000 (ms)
OutboxMaxRetriesDefault == 5   \* column default of Outbox.maxRetries

NULL == -1                     \* SQL NULL of a timestamp column
SEQUENCE_TOPIC == "SEQUENCE_TOPIC"

Schedulers == {"s1", "s2"}
Pumps == {"p1", "p2"}
SpecPumps == {"p1"}            \* the pump instances Spec runs
HappySchedulers == {"s1"}      \* the scheduler instances HappySpec runs
Workers == {"w1", "w2"}

LeadId == "L1"
SequenceId == "S1"
LeadStateIds == {"LS1"}

\* ------------------------------------------------------------- state
VARIABLES
  now,        \* the database clock now(), in hours
  leads,      \* table Lead (read-only): leadId -> row
  lss,        \* table LeadSequenceState: id -> row
  outbox,     \* table Outbox: sequence of rows in insertion order, id = index
  locked,     \* row locks of the claim statements in progress: pump -> set of ids
  queue,      \* broker queue SEQUENCE_TOPIC: bag of ready messages
  dlq,        \* messages rejected without requeue: bag
  spc,        \* scheduler -> position in its loop, or how its process ended
  sbatch,     \* scheduler -> leads of handleBatch still to do
  stx,        \* scheduler -> Outbox rows its open transaction inserted, uncommitted
  ppc,        \* pump -> position in its loop
  pjobs,      \* pump -> claimed OutboxJobs still to hand to the broker
  pconn,      \* pump -> RabbitMQService.instance is set
  wpc,        \* worker -> position in the consumer callback
  wmsg,       \* worker -> the unacknowledged delivery it holds
  pubCount,   \* history: outbox id -> number of times published to the broker
  pubState,   \* history: outbox id -> outcome of the last hand-off of the row
  advCount,   \* history: step_number of a message -> advancements it caused
  republished,\* history: step_number -> x-retries headers the retry path published
  sent,       \* history: step_number -> EmailData of the step handed over (up to MaxSends)
  templates,  \* catalog (read-only): stepNumber -> the step has a template attached
  updatedAtGuard, \* the deployed getPendingLeads has the "updatedAt" condition
  kcalls,     \* the latest calls of makeIdemKey: <<[args, key, at], ...>>, newest first
  foreign,    \* the messages a publisher other than the Pump has put on the queue
  minInterval,\* catalog (read-only): stepNumber -> minIntervalMin of the step
  es,         \* the EmailService: its configuration and the sendEmail call in progress
  rmq,        \* RabbitMQService of one process: the static instance and the calls
              \* of getInstance in progress
  tp          \* a TemplateProcessor: configuration, lead, template, host clock and
              \* the outputs of the runs of processTemplate

vars == <<now, leads, lss, outbox, locked, queue, dlq, spc, sbatch, stx,
          ppc, pjobs, pconn, wpc, wmsg, pubCount, pubState, advCount, republished,
          sent, templates, updatedAtGuard, kcalls, foreign, minInterval, es, rmq, tp>>

dbVars == <<leads, lss, outbox, locked>>
schedVars == <<spc, sbatch, stx>>
pumpVars == <<ppc, pjobs, pconn>>
workerVars == <<wpc, wmsg>>
brokerVars == <<queue, dlq>>
histVars == <<pubCount, pubState, advCount, republished, sent>>
restVars == <<templates, updatedAtGuard, kcalls, foreign, minInterval, es, rmq, tp>>

Min(a, b) == IF a < b THEN a ELSE b

\* ------------------------------------------------------------- catalog
\* Table SequenceStep of the one sequence: stepNumber 1..NSteps, dense.
SequenceStep ==
  [n \in 1..NSteps |->
     [id |-> <<"step", n>>, sequenceId |-> SequenceId, stepNumber |-> n,
      minIntervalMin |-> minInterval[n]]]

\* SELECT MAX("stepNumber") FROM "SequenceStep" WHERE "sequenceId" = seq
MaxStepNumber(seq) ==
  CHOOSE m \in 1..NSteps :
    /\ SequenceStep[m].sequenceId = seq
    /\ \A n \in 1..NSteps : SequenceStep[n].sequenceId = seq => n <= m

\* Lead rows the catalog may hold for the enrolled lead.
ValidLead == [email |-> "a@x", isSubscribedToEmail |-> TRUE, isEmailValid |-> "VALID"]

LeadProfiles ==
  {ValidLead,
   [ValidLead EXCEPT !.isSubscribedToEmail = FALSE],
   [ValidLead EXCEPT !.isEmailValid = "INVALID"],
   [ValidLead EXCEPT !.email = ""]}

\* The template attachments the catalog may hold: every step has a template,
\* or step 1 has none.
AllTemplates == [n \in 1..NSteps |-> TRUE]

TemplateProfiles == {AllTemplates, [AllTemplates EXCEPT ![1] = FALSE]}

\* Every step with the shortest minIntervalMin.
ShortIntervals == [n \in 1..NSteps |-> MinIntervalMin]

\* The catalogs a run of Spec starts from: any lead, every template attached.
Catalogs == {[lead |-> l, templates |-> AllTemplates] : l \in LeadProfiles}

\* The strings that occur as ids and suffixes, in a fixed order.
Atoms ==
  <<"", "x", "S1", "S2", "L1", "L2", "L3", "L4", "L5", "L6", "L7", "L8", "L9",
    "L10", "L11", "L12", "L13">>

AtomCode(a) == CHOOSE i \in DOMAIN Atoms : Atoms[i] = a

\* A hex string is a sequence of hex digits, each digit by its value.
HexDigit == 0..15

\* JSON.stringify({sequenceId, leadId, stepNumber, attempt, suffix}): the
\* text is fixed by the five values in this key order.
JSONstringify(sequenceId, leadId, stepNumber, attempt, suffix) ==
  <<sequenceId, leadId, stepNumber, attempt, suffix>>

\* The number a JSON text stands for (32 values per field).
RawCode(raw) ==
  (((AtomCode(raw[1]) * 32 + AtomCode(raw[2])) * 32 + raw[3]) * 32 + raw[4]) * 32
  + AtomCode(raw[5])

\* crypto.createHash("sha256").update(raw).digest("hex"): 64 hex digits.  The
\* digest is a stand-in that, like SHA-256 on the inputs considered, gives
\* different texts different first digits: digits 1..8 spell RawCode(raw),
\* the other digits are mixed from it.
sha256hex(raw) ==
  LET n == RawCode(raw) IN
  [i \in 1..64 |->
     IF i <= 8 THEN (n \div (16 ^ (i - 1))) % 16 ELSE (n * i + i) % 16]

\* str.slice(from, to)
slice(str, from, to) == SubSeq(str, from + 1, Min(to, Len(str)))

\* Mutant of makeIdemKey: the time of the call is hashed as well.
makeIdemKeyTimed(sequenceId, leadId, stepNumber, attempt, suffix) ==
  slice(sha256hex(JSONstringify(sequenceId, leadId, stepNumber, attempt + now, suffix)),
        0, 32)

\* makeIdemKey with all five arguments given.
makeIdemKey(sequenceId, leadId, stepNumber, attempt, suffix) ==
  slice(sha256hex(JSONstringify(sequenceId, leadId, stepNumber, attempt, suffix)), 0, 32)

\* A call of makeIdemKey with 3, 4 or 5 arguments: attempt = 0 and
\* suffix = "" are the defaults of the parameters left out.
makeIdemKeyCall(args) ==
  makeIdemKey(args[1], args[2], args[3],
              IF Len(args) >= 4 THEN args[4] ELSE 0,
              IF Len(args) >= 5 THEN args[5] ELSE "")

\* ------------------------------------------------------------- helpers
\* The sequences of k distinct elements of S (the orders a query without
\* ORDER BY may return k of the rows S in).
RECURSIVE Orderings(_, _)
Orderings(S, k) ==
  IF k = 0 \/ S = {} THEN {<<>>}
  ELSE UNION {{<<x>> \o t : t \in Orderings(S \ {x}, k - 1)} : x \in S}

Range(s) == {s[i] : i \in DOMAIN s}

OutboxIds == DOMAIN outbox

\* ------------------------------------------------------------- Scheduler
\* Mutant of IsPending: no condition on "lastSentAt".
IsPendingWithoutCooldown(id) ==
  LET st == lss[id] IN
  /\ st.currentStep + 1 \in DOMAIN SequenceStep
  /\ SequenceStep[st.currentStep + 1].sequenceId = st.sequenceId
  /\ st.status \in {"PENDING", "RUNNING"}
  /\ updatedAtGuard => st.updatedAt < now - 1

\* WHERE clause and join of getPendingLeads for one LeadSequenceState row;
\* the condition on "updatedAt" is in one of the two versions of the query.
IsPending(id) ==
  LET st == lss[id] IN
  /\ st.currentStep + 1 \in DOMAIN SequenceStep
  /\ SequenceStep[st.currentStep + 1].sequenceId = st.sequenceId
  /\ st.status \in {"PENDING", "RUNNING"}
  /\ \/ st.lastSentAt = NULL
     \/ (now - st.lastSentAt) * 60 > SequenceStep[st.currentStep + 1].minIntervalMin
  /\ updatedAtGuard => st.updatedAt < now - 1

\* The row getPendingLeads returns for a LeadSequenceState.
PendingLead(id) ==
  LET st == lss[id]
      step == SequenceStep[st.currentStep + 1] IN
  [lead_state_id |-> id, lead_id |-> st.leadId, sequence_id |-> st.sequenceId,
   current_step |-> st.currentStep, step_id |-> step.id,
   step_number |-> step.stepNumber, min_interval_min |-> step.minIntervalMin]

\* getPendingLeads(max): the possible results, at most max rows in any order.
getPendingLeads(max) ==
  LET ids == {id \in LeadStateIds : IsPending(id)} IN
  {[i \in DOMAIN o |-> PendingLead(o[i])] : o \in Orderings(ids, Min(max, Cardinality(ids)))}

\* Mutant of handleBatchIdemKey: the attempt argument is the time of the tick.
handleBatchIdemKeyTimed(lead) ==
  makeIdemKeyCall(<<lead.sequence_id, lead.lead_id, lead.current_step, now>>)

\* Mutant of handleBatchIdemKey: the attempt argument is the number of rows
\* the Outbox holds.
handleBatchIdemKeyFresh(lead) ==
  makeIdemKeyCall(<<lead.sequence_id, lead.lead_id, lead.current_step, Len(outbox)>>)

\* handleBatch: const idemKey = makeIdemKey(sequence_id, lead_id, current_step)
handleBatchIdemKey(lead) ==
  makeIdemKeyCall(<<lead.sequence_id, lead.lead_id, lead.current_step>>)

\* SELECT Count(*) FROM "Outbox" WHERE "idemKey" = key
CountIdemKey(key) == Cardinality({i \in OutboxIds : outbox[i].idemKey = key})

\* The unique index on Outbox.idemKey rejects the INSERT of a key that a
\* committed row already has.
UniqueViolation(key) == \E i \in OutboxIds : outbox[i].idemKey = key

\* INSERT INTO "Outbox" (id, topic, payload, idemKey); the other columns
\* take their defaults.
InsertOutbox(lead, key) ==
  Append(outbox,
         [id |-> Len(outbox) + 1, topic |-> SEQUENCE_TOPIC, payload |-> lead,
          idemKey |-> key, processed |-> FALSE, processedAt |-> NULL,
          retries |-> 0, maxRetries |-> OutboxMaxRetriesDefault,
          createdAt |-> now])

\* Mutant of MarkRunning: "lastSentAt" is set as well.
MarkRunningStamping(id) ==
  IF id \in DOMAIN lss /\ lss[id].status \in {"PENDING", "RUNNING"}
  THEN [lss EXCEPT ![id].status = "RUNNING", ![id].updatedAt = now,
                   ![id].lastSentAt = now]
  ELSE lss

\* Mutant of MarkRunning: only "updatedAt" is set.
MarkRunningKeepingStatus(id) ==
  IF id \in DOMAIN lss /\ lss[id].status \in {"PENDING", "RUNNING"}
  THEN [lss EXCEPT ![id].updatedAt = now]
  ELSE lss

\* Mutant of MarkRunning: the status condition is missing.
MarkRunningAnyStatus(id) ==
  IF id \in DOMAIN lss
  THEN [lss EXCEPT ![id].status = "RUNNING", ![id].updatedAt = now]
  ELSE lss

\* UPDATE "LeadSequenceState" SET status = 'RUNNING', "updatedAt" = now()
\* WHERE id = ... AND status IN ('PENDING','RUNNING')
MarkRunning(id) ==
  IF id \in DOMAIN lss /\ lss[id].status \in {"PENDING", "RUNNING"}
  THEN [lss EXCEPT ![id].status = "RUNNING", ![id].updatedAt = now]
  ELSE lss

\* The loop head: getPendingLeads(50) returned leads, handleBatch starts.
SchedTick(s) ==
  /\ spc[s] = "tick"
  /\ \E b \in getPendingLeads(BATCH) :
       /\ Len(b) > 0
       /\ sbatch' = [sbatch EXCEPT ![s] = b]
  /\ spc' = [spc EXCEPT ![s] = "batch"]
  /\ UNCHANGED <<now, restVars, dbVars, brokerVars, stx, pumpVars, workerVars, histVars>>

\* sql.begin, the count query and the check of its result.  A found row
\* throws DatabaseError out of handleBatch and the top-level await: the
\* process ends with the rest of the batch undone.
SchedCount(s) ==
  /\ spc[s] = "batch"
  /\ LET lead == Head(sbatch[s]) IN
       IF CountIdemKey(handleBatchIdemKey(lead)) > 0
       THEN /\ spc' = [spc EXCEPT ![s] = "exists"]
            /\ sbatch' = [sbatch EXCEPT ![s] = <<>>]
       ELSE /\ spc' = [spc EXCEPT ![s] = "tx"]
            /\ UNCHANGED sbatch
  /\ UNCHANGED <<now, restVars, dbVars, brokerVars, stx, pumpVars, workerVars, histVars>>

\* INSERT, UPDATE and COMMIT of the transaction: both writes become visible
\* together.  An INSERT that meets a committed row with the same key fails,
\* the transaction rolls back and the error ends the process.
SchedCommit(s) ==
  /\ spc[s] = "tx"
  /\ LET lead == Head(sbatch[s])
         key == handleBatchIdemKey(lead) IN
       IF UniqueViolation(key)
       THEN /\ spc' = [spc EXCEPT ![s] = "unique"]
            /\ sbatch' = [sbatch EXCEPT ![s] = <<>>]
            /\ UNCHANGED <<outbox, lss, pubCount, pubState>>
       ELSE /\ outbox' = InsertOutbox(lead, key)
            /\ lss' = MarkRunning(lead.lead_state_id)
            /\ pubCount' = Append(pubCount, 0)
            /\ pubState' = Append(pubState, "new")
            /\ sbatch' = [sbatch EXCEPT ![s] = Tail(sbatch[s])]
            /\ spc' = [spc EXCEPT ![s] = IF Len(sbatch[s]) = 1 THEN "tick" ELSE "batch"]
  /\ UNCHANGED <<now, restVars, leads, locked, brokerVars, stx, pumpVars, workerVars,
                 advCount, republished, sent>>

\* The scheduler process, ended by the error ("exists": the count query
\* found a row, "unique": the INSERT was rejected, "aborted": a statement
\* after the INSERT failed), is started again.
SchedRestart(s) ==
  /\ spc[s] \in {"exists", "unique", "aborted"}
  /\ spc' = [spc EXCEPT ![s] = "tick"]
  /\ UNCHANGED <<now, restVars, dbVars, brokerVars, sbatch, stx, pumpVars, workerVars,
                 histVars>>

\* The transaction of handleBatch statement by statement.  The rows a
\* transaction inserted are its own until COMMIT.
\* An INSERT waits while another open transaction holds a row with its key.
InsertBlocked(s, key) ==
  \E t \in Schedulers \ {s} : \E k \in DOMAIN stx[t] : stx[t][k].idemKey = key

\* The INSERT inside sql.begin: rejected when a committed row has the key,
\* otherwise the row is written in the transaction.
SchedInsert(s) ==
  /\ spc[s] = "tx"
  /\ LET lead == Head(sbatch[s])
         key == handleBatchIdemKey(lead) IN
       /\ ~InsertBlocked(s, key)
       /\ IF UniqueViolation(key)
          THEN /\ spc' = [spc EXCEPT ![s] = "unique"]
               /\ sbatch' = [sbatch EXCEPT ![s] = <<>>]
               /\ UNCHANGED stx
          ELSE /\ stx' = [stx EXCEPT ![s] = <<InsertOutbox(lead, key)[Len(outbox) + 1]>>]
               /\ spc' = [spc EXCEPT ![s] = "inserted"]
               /\ UNCHANGED sbatch
  /\ UNCHANGED <<now, restVars, dbVars, brokerVars, pumpVars, workerVars, histVars>>

\* COMMIT: the rows of the transaction join the table, numbered in the
\* order they become visible (the id itself is gen_random_uuid()).
Committed(rows, tx) ==
  rows \o [k \in DOMAIN tx |-> [tx[k] EXCEPT !.id = Len(rows) + k]]

\* Mutant of RolledBack: the INSERT was not part of a transaction and stays.
RolledBackWithoutInsert(rows, tx) == Committed(rows, tx)

\* ROLLBACK by sql.begin when its callback throws, or by the database when
\* the connection is lost: the rows of the transaction are dropped.
RolledBack(rows, tx) == rows

\* The history of the rows of the table, one entry per row.
Extended(hist, rows, new) ==
  [i \in DOMAIN rows |-> IF i \in DOMAIN hist THEN hist[i] ELSE new]

\* The UPDATE inside sql.begin and the COMMIT: the inserted row and the
\* update become visible together.
SchedUpdateCommit(s) ==
  /\ spc[s] = "inserted"
  /\ outbox' = Committed(outbox, stx[s])
  /\ lss' = MarkRunning(Head(sbatch[s]).lead_state_id)
  /\ pubCount' = Extended(pubCount, Committed(outbox, stx[s]), 0)
  /\ pubState' = Extended(pubState, Committed(outbox, stx[s]), "new")
  /\ stx' = [stx EXCEPT ![s] = <<>>]
  /\ sbatch' = [sbatch EXCEPT ![s] = Tail(sbatch[s])]
  /\ spc' = [spc EXCEPT ![s] = IF Len(sbatch[s]) = 1 THEN "tick" ELSE "batch"]
  /\ UNCHANGED <<now, restVars, leads, locked, brokerVars, pumpVars, workerVars,
                 advCount, republished, sent>>

\* The UPDATE or the COMMIT fails, or the process dies after the INSERT: the
\* transaction is rolled back and the error ends the process.
SchedTxFail(s) ==
  /\ spc[s] = "inserted"
  /\ outbox' = RolledBack(outbox, stx[s])
  /\ pubCount' = Extended(pubCount, RolledBack(outbox, stx[s]), 0)
  /\ pubState' = Extended(pubState, RolledBack(outbox, stx[s]), "new")
  /\ stx' = [stx EXCEPT ![s] = <<>>]
  /\ sbatch' = [sbatch EXCEPT ![s] = <<>>]
  /\ spc' = [spc EXCEPT ![s] = "aborted"]
  /\ UNCHANGED <<now, restVars, leads, lss, locked, brokerVars, pumpVars, workerVars,
                 advCount, republished, sent>>

\* ------------------------------------------------------------- Pump
LockedByOthers(p) == UNION {locked[q] : q \in Pumps \ {p}}

\* Mutant of Claimable: no FOR UPDATE SKIP LOCKED.
ClaimableIgnoringLocks(p) ==
  {i \in OutboxIds :
     /\ outbox[i].processed = FALSE
     /\ outbox[i].retries < outbox[i].maxRetries}

\* Mutant of Claimable: no condition on retries.
ClaimableAnyRetries(p) ==
  {i \in OutboxIds :
     /\ outbox[i].processed = FALSE
     /\ i \notin LockedByOthers(p)}

\* Inner SELECT of the claim statement: WHERE processed = false AND
\* retries < "maxRetries", rows locked by another statement skipped.
Claimable(p) ==
  {i \in OutboxIds :
     /\ outbox[i].processed = FALSE
     /\ outbox[i].retries < outbox[i].maxRetries
     /\ i \notin LockedByOthers(p)}

\* ORDER BY "createdAt" LIMIT k over the rows S: the possible results (rows
\* with equal createdAt come in either order).
RECURSIVE OrderByCreatedAt(_, _)
OrderByCreatedAt(S, k) ==
  IF k = 0 \/ S = {} THEN {<<>>}
  ELSE LET first == {i \in S : \A j \in S : outbox[i].createdAt <= outbox[j].createdAt}
       IN UNION {{<<i>> \o t : t \in OrderByCreatedAt(S \ {i}, k - 1)} : i \in first}

\* SELECT id ... ORDER BY "createdAt" LIMIT max FOR UPDATE SKIP LOCKED
SelectForClaim(p, max) == OrderByCreatedAt(Claimable(p), max)

\* Mutant of MarkClaimed: "processedAt" is not set.
MarkClaimedWithoutTimestamp(ids) ==
  [i \in OutboxIds |->
     IF i \in ids
     THEN [outbox[i] EXCEPT !.processed = TRUE, !.retries = outbox[i].retries + 1]
     ELSE outbox[i]]

\* UPDATE "Outbox" SET processed = true, "processedAt" = now(),
\* retries = retries + 1 WHERE id IN (ids)
MarkClaimed(ids) ==
  [i \in OutboxIds |->
     IF i \in ids
     THEN [outbox[i] EXCEPT !.processed = TRUE, !.processedAt = now,
                            !.retries = outbox[i].retries + 1]
     ELSE outbox[i]]

\* RETURNING id, topic, payload, "idemKey", retries
OutboxJob(row) ==
  [id |-> row.id, topic |-> row.topic, payload |-> row.payload,
   idemKey |-> row.idemKey, retries |-> row.retries]

\* The OutboxJobs of the rows ids, in this order, as the statement returns
\* them from the table rows.
RECURSIVE ReturnedJobs(_, _)
ReturnedJobs(ids, rows) ==
  IF ids = <<>> THEN <<>>
  ELSE <<OutboxJob(rows[Head(ids)])>> \o ReturnedJobs(Tail(ids), rows)

\* The ids of a sequence of OutboxJobs.
JobIds(jobs) == [k \in DOMAIN jobs |-> jobs[k].id]

\* revertOutbox(id): the statement text is
\*   UPDATE "Outbox" SET processed = false, "processedAt" = null, WHERE id = ..
\* which the database rejects for the comma before WHERE; withErrorHandlingFn
\* returns the error and no row changes.
revertOutbox(id) == outbox

\* A message as RabbitMQ.send publishes it: the payload, no headers.
NewMessage(payload) == [content |-> payload, headers |-> <<>>]

\* handleOutboxQueue -> getPendingOutboxJobs(10): the inner SELECT has
\* locked the rows it found (pjobs: the rows as the SELECT saw them).
PumpSelect(p) ==
  /\ ppc[p] = "idle"
  /\ \E sel \in SelectForClaim(p, CLAIM) :
       /\ Len(sel) > 0
       /\ pjobs' = [pjobs EXCEPT ![p] = ReturnedJobs(sel, outbox)]
       /\ locked' = [locked EXCEPT ![p] = Range(sel)]
  /\ ppc' = [ppc EXCEPT ![p] = "selected"]
  /\ UNCHANGED <<now, restVars, leads, lss, outbox, brokerVars, schedVars, pconn,
                 workerVars, histVars>>

\* The UPDATE of the claim statement commits and returns the rows.
PumpClaim(p) ==
  /\ ppc[p] = "selected"
  /\ outbox' = MarkClaimed(locked[p])
  /\ pjobs' = [pjobs EXCEPT ![p] = ReturnedJobs(JobIds(pjobs[p]), MarkClaimed(locked[p]))]
  /\ locked' = [locked EXCEPT ![p] = {}]
  /\ pubState' = [i \in DOMAIN pubState |-> IF i \in locked[p] THEN "claimed" ELSE pubState[i]]
  /\ ppc' = [ppc EXCEPT ![p] = "jobs"]
  /\ UNCHANGED <<now, restVars, leads, lss, brokerVars, schedVars, pconn, workerVars,
                 pubCount, advCount, republished, sent>>

PumpNextJob(p) ==
  /\ pjobs' = [pjobs EXCEPT ![p] = Tail(pjobs[p])]
  /\ ppc' = [ppc EXCEPT ![p] = IF Len(pjobs[p]) = 1 THEN "idle" ELSE "jobs"]

\* handleOutbox: getInstance() gives the channel and send() puts the message
\* on the queue.
PumpPublish(p) ==
  /\ ppc[p] = "jobs"
  /\ LET job == Head(pjobs[p]) IN
       /\ queue' = queue (+) SetToBag({NewMessage(job.payload)})
       /\ pubCount' = [pubCount EXCEPT ![job.id] = @ + 1]
       /\ pubState' = [pubState EXCEPT ![job.id] = "published"]
  /\ pconn' = [pconn EXCEPT ![p] = TRUE]
  /\ PumpNextJob(p)
  /\ UNCHANGED <<now, restVars, dbVars, dlq, schedVars, workerVars, advCount, republished, sent>>

\* handleOutbox: getInstance() has to connect and the connection fails; the
\* catch block calls revertOutbox.
PumpConnectFail(p) ==
  /\ ppc[p] = "jobs"
  /\ pconn[p] = FALSE
  /\ LET job == Head(pjobs[p]) IN
       /\ outbox' = revertOutbox(job.id)
       /\ pubState' = [pubState EXCEPT ![job.id] = "reverted"]
  /\ PumpNextJob(p)
  /\ UNCHANGED <<now, restVars, leads, lss, locked, brokerVars, schedVars, pconn,
                 workerVars, pubCount, advCount, republished, sent>>

\* handleOutbox: assertQueue or sendToQueue fails inside send(), which logs
\* the error and returns; handleOutbox sees no error.
PumpSendFail(p) ==
  /\ ppc[p] = "jobs"
  /\ pconn[p] = TRUE
  /\ LET job == Head(pjobs[p]) IN
       pubState' = [pubState EXCEPT ![job.id] = "lost"]
  /\ PumpNextJob(p)
  /\ UNCHANGED <<now, restVars, dbVars, brokerVars, schedVars, pconn, workerVars,
                 pubCount, advCount, republished, sent>>

\* The pump process dies between the claim and the hand-off of its jobs and
\* is started again.
PumpCrash(p) ==
  /\ ppc[p] = "jobs"
  /\ pjobs' = [pjobs EXCEPT ![p] = <<>>]
  /\ ppc' = [ppc EXCEPT ![p] = "idle"]
  /\ pconn' = [pconn EXCEPT ![p] = FALSE]
  /\ UNCHANGED <<now, restVars, dbVars, brokerVars, schedVars, workerVars, histVars>>

\* ------------------------------------------------------------- Worker
NoMessage == [content |-> [lead_state_id |-> "none"], headers |-> <<>>]

\* (msg.properties.headers?.["x-retries"] as number) || 0
XRetries(msg) == IF msg.headers = <<>> THEN 0 ELSE msg.headers[1]

\* The raw content of a message is given by the JSON object its text stands
\* for; NotJson is a text that JSON.parse rejects.
NotJson == [text |-> "{"]

\* The keys of PendingLeadSchema.
PendingLeadKeys ==
  {"lead_state_id", "lead_id", "sequence_id", "current_step", "step_id",
   "step_number", "min_interval_min"}

\* parseAndValidateMessage: JSON.parse, then PendingLeadSchema.parse; TRUE
\* when a WorkerMessage is returned, FALSE when null is.
parseAndValidateMessage(content) ==
  /\ content # NotJson
  /\ PendingLeadKeys \subseteq DOMAIN content
  /\ content.current_step >= 0
  /\ content.step_number >= 1
  /\ content.min_interval_min >= 0

\* Mutant of LeadIsEligible: isEmailValid is not looked at.
LeadIsEligibleAnyValidity(content) ==
  /\ content.lead_id \in DOMAIN leads
  /\ \E n \in DOMAIN SequenceStep : SequenceStep[n].id = content.step_id
  /\ leads[content.lead_id].email # ""
  /\ leads[content.lead_id].isSubscribedToEmail

\* validateLeadData, validateSequenceStep and validateLeadEligibility of
\* processLead: none of them throws.
LeadIsEligible(content) ==
  /\ content.lead_id \in DOMAIN leads
  /\ \E n \in DOMAIN SequenceStep : SequenceStep[n].id = content.step_id
  /\ leads[content.lead_id].email # ""
  /\ leads[content.lead_id].isSubscribedToEmail
  /\ leads[content.lead_id].isEmailValid # "INVALID"

\* Mutant of NextStatus: the status stays RUNNING.
NextStatusRunning(st) == "RUNNING"

\* Mutant of NextStatus: > for >=.
NextStatusStrict(st) ==
  IF st.currentStep + 1 > MaxStepNumber(st.sequenceId) THEN "COMPLETED" ELSE "RUNNING"

\* CASE WHEN (l."currentStep" + 1) >= (SELECT MAX("stepNumber") ...)
\*      THEN 'COMPLETED' ELSE 'RUNNING' END
NextStatus(st) ==
  IF st.currentStep + 1 >= MaxStepNumber(st.sequenceId) THEN "COMPLETED" ELSE "RUNNING"

\* Mutant of AdvanceMatches: the status condition is missing.
AdvanceMatchesAnyStatus(id) == id \in DOMAIN lss

\* WHERE l.id = leadStateId AND l.status IN ('PENDING','RUNNING')
AdvanceMatches(id) ==
  id \in DOMAIN lss /\ lss[id].status \in {"PENDING", "RUNNING"}

\* Mutant of AdvanceRow: "lastSentAt" is set from the row's "updatedAt".
AdvanceRowStale(st) ==
  [st EXCEPT !.currentStep = st.currentStep + 1, !.status = NextStatus(st),
             !.lastSentAt = st.updatedAt, !.failureCount = 0, !.updatedAt = now]

\* The UPDATE of updateLeadSequenceState applied to the row it matches.
AdvanceRow(st) ==
  [st EXCEPT !.currentStep = st.currentStep + 1, !.status = NextStatus(st),
             !.lastSentAt = now, !.failureCount = 0, !.updatedAt = now]

\* Mutant of AfterParse: the callback throws for a message that is null.
AfterParseThrowing(message) == IF message THEN "handling" ELSE "failed"

\* The consumer callback after parseAndValidateMessage: if (!message) return,
\* otherwise handleMessage(message).
AfterParse(message) == IF message THEN "handling" ELSE "success"

\* The broker delivers a ready message to a consumer that holds none
\* (prefetch 1); the callback parses it.  A malformed message makes the
\* callback return at once.
WorkerDeliver(w) ==
  /\ wpc[w] = "idle"
  /\ \E m \in BagToSet(queue) :
       /\ queue' = queue (-) SetToBag({m})
       /\ wmsg' = [wmsg EXCEPT ![w] = m]
       /\ wpc' = [wpc EXCEPT ![w] = AfterParse(parseAndValidateMessage(m.content))]
  /\ UNCHANGED <<now, restVars, dbVars, dlq, schedVars, pumpVars, histVars>>

\* fetchEmailTemplate: the template data of the step, "none" (null) when the
\* step has no template attached.
fetchEmailTemplate(step_number) ==
  IF templates[step_number] THEN "template" ELSE "none"

\* prepareEmailData: without template data the subject is "No Subject" and
\* the body is empty; the EmailData is returned in both cases.
prepareEmailData(content, templateData) ==
  [to |-> leads[content.lead_id].email,
   subject |-> IF templateData = "none" THEN "No Subject" ELSE "subject",
   body |-> "", leadId |-> content.lead_id, stepId |-> content.step_id]

\* The EmailData of a step reaches the hand-over point of processLead (the
\* place of the provider call, after prepareEmailData).
HandOver(emailData, step_number) ==
  [sent EXCEPT ![step_number] = Min(@ + 1, MaxSends)]

\* handleMessage -> processLead: data loaded and validated; for an eligible
\* lead the email data is prepared and handed over and processLead returns,
\* otherwise a validation throws.
WorkerProcessLead(w) ==
  /\ wpc[w] = "handling"
  /\ LET content == wmsg[w].content IN
       IF LeadIsEligible(content)
       THEN /\ sent' = HandOver(prepareEmailData(content,
                                                 fetchEmailTemplate(content.step_number)),
                                content.step_number)
            /\ wpc' = [wpc EXCEPT ![w] = "processed"]
       ELSE /\ wpc' = [wpc EXCEPT ![w] = "failed"]
            /\ UNCHANGED sent
  /\ UNCHANGED <<now, restVars, dbVars, brokerVars, schedVars, pumpVars, wmsg,
                 pubCount, pubState, advCount, republished>>

\* handleMessage -> processLead throws because a query of it failed.
WorkerFetchFail(w) ==
  /\ wpc[w] = "handling"
  /\ wpc' = [wpc EXCEPT ![w] = "failed"]
  /\ UNCHANGED <<now, restVars, dbVars, brokerVars, schedVars, pumpVars, wmsg, histVars>>

\* onSuccessfulMessage -> updateLeadSequenceState: the UPDATE commits; an
\* empty result throws.
WorkerAdvance(w) ==
  /\ wpc[w] = "processed"
  /\ LET id == wmsg[w].content.lead_state_id
         k == wmsg[w].content.step_number IN
       IF AdvanceMatches(id)
       THEN /\ lss' = [lss EXCEPT ![id] = AdvanceRow(lss[id])]
            /\ advCount' = [advCount EXCEPT ![k] = @ + 1]
            /\ wpc' = [wpc EXCEPT ![w] = "success"]
       ELSE /\ wpc' = [wpc EXCEPT ![w] = "failed"]
            /\ UNCHANGED <<lss, advCount>>
  /\ UNCHANGED <<now, restVars, leads, outbox, locked, brokerVars, schedVars, pumpVars,
                 wmsg, pubCount, pubState, republished, sent>>

\* consume: the callback returned, channel.ack(msg).
WorkerAck(w) ==
  /\ wpc[w] = "success"
  /\ wpc' = [wpc EXCEPT ![w] = "idle"]
  /\ wmsg' = [wmsg EXCEPT ![w] = NoMessage]
  /\ UNCHANGED <<now, restVars, dbVars, brokerVars, schedVars, pumpVars, histVars>>

\* Mutant of ShouldRetry: <= for <.
ShouldRetryInclusive(retries) == retries <= maxRetries

\* consume, catch: retries < maxRetries.
ShouldRetry(retries) == retries < maxRetries

\* consume, catch, retries < maxRetries: sendToQueue with x-retries + 1,
\* then ack of the failed delivery.
WorkerRetry(w) ==
  /\ wpc[w] = "failed"
  /\ ShouldRetry(XRetries(wmsg[w]))
  /\ LET retries == XRetries(wmsg[w])
         k == wmsg[w].content.step_number IN
       /\ queue' = queue (+) SetToBag({[content |-> wmsg[w].content,
                                        headers |-> <<retries + 1>>]})
       /\ republished' = [republished EXCEPT ![k] = Append(@, retries + 1)]
  /\ wpc' = [wpc EXCEPT ![w] = "idle"]
  /\ wmsg' = [wmsg EXCEPT ![w] = NoMessage]
  /\ UNCHANGED <<now, restVars, dbVars, dlq, schedVars, pumpVars, pubCount, pubState, advCount, sent>>

\* The retry path of consume statement by statement.
\* The message sendToQueue publishes for a failed delivery.
RetryCopy(msg) == [content |-> msg.content, headers |-> <<XRetries(msg) + 1>>]

\* Mutant of AfterSendToQueue: nothing is published.
AfterSendToQueueNothing(q, msg) == q

\* The queue after sendToQueue(queue, msg.content, {headers: x-retries + 1}).
AfterSendToQueue(q, msg) == q (+) SetToBag({RetryCopy(msg)})

\* consume, catch, retries < maxRetries: sendToQueue; the failed delivery is
\* still unacknowledged.
WorkerRepublish(w) ==
  /\ wpc[w] = "failed"
  /\ ShouldRetry(XRetries(wmsg[w]))
  /\ queue' = AfterSendToQueue(queue, wmsg[w])
  /\ republished' = [republished EXCEPT ![wmsg[w].content.step_number] =
                       Append(@, XRetries(wmsg[w]) + 1)]
  /\ wpc' = [wpc EXCEPT ![w] = "republished"]
  /\ UNCHANGED <<now, restVars, dbVars, dlq, schedVars, pumpVars, wmsg, pubCount,
                 pubState, advCount, sent>>

\* consume, catch, after sendToQueue: channel.ack(msg).
WorkerRetryAck(w) ==
  /\ wpc[w] = "republished"
  /\ wpc' = [wpc EXCEPT ![w] = "idle"]
  /\ wmsg' = [wmsg EXCEPT ![w] = NoMessage]
  /\ UNCHANGED <<now, restVars, dbVars, brokerVars, schedVars, pumpVars, histVars>>

\* consume, catch, else: channel.reject(msg, false).
WorkerReject(w) ==
  /\ wpc[w] = "failed"
  /\ ~ShouldRetry(XRetries(wmsg[w]))
  /\ dlq' = dlq (+) SetToBag({wmsg[w]})
  /\ wpc' = [wpc EXCEPT ![w] = "idle"]
  /\ wmsg' = [wmsg EXCEPT ![w] = NoMessage]
  /\ UNCHANGED <<now, restVars, dbVars, queue, schedVars, pumpVars, histVars>>

\* The worker's connection closes while it holds an unacknowledged delivery:
\* the broker puts the message back on the queue, the worker starts again.
WorkerCrash(w) ==
  /\ wpc[w] \notin {"idle", "exited"}
  /\ queue' = queue (+) SetToBag({wmsg[w]})
  /\ wpc' = [wpc EXCEPT ![w] = "idle"]
  /\ wmsg' = [wmsg EXCEPT ![w] = NoMessage]
  /\ UNCHANGED <<now, restVars, dbVars, dlq, schedVars, pumpVars, histVars>>

\* SIGINT or SIGTERM reaches the worker process: gracefulShutdown logs and
\* calls process.exit(0) at once (the handler of the db module has only
\* started sql.end by then).  The signal is handled while the process
\* waits: for a delivery, or for the database inside processLead or
\* updateLeadSequenceState.  The broker puts the unacknowledged delivery of
\* the closed connection back on the queue.
WorkerShutdown(w) ==
  /\ wpc[w] \in {"idle", "handling", "processed"}
  /\ queue' = IF wpc[w] = "idle" THEN queue ELSE queue (+) SetToBag({wmsg[w]})
  /\ wpc' = [wpc EXCEPT ![w] = "exited"]
  /\ wmsg' = [wmsg EXCEPT ![w] = NoMessage]
  /\ UNCHANGED <<now, restVars, dbVars, dlq, schedVars, pumpVars, histVars>>

\* ------------------------------------------------------------- EmailService
\* An EmailService as its constructor leaves it, with no call of sendEmail
\* made: calls counts the invocations of the provider, outcomes lists what
\* they gave, waits lists the delays waited.
NewEmailService(retryAttempts, retryDelay, enableValidation) ==
  [retryAttempts |-> retryAttempts, retryDelay |-> retryDelay,
   enableValidation |-> enableValidation, pc |-> "idle", attempt |-> 0,
   calls |-> 0, outcomes |-> <<>>, waits |-> <<>>, result |-> "none"]

EmailServiceDefault == NewEmailService(retryAttemptsDefault, retryDelayDefault, TRUE)

\* sendEmail: validation, then sendWithRetry with attempt = 1; the loop
\* condition attempt <= retryAttempts fails at once for retryAttempts < 1.
sendEmail(valid) ==
  /\ es.pc = "idle"
  /\ es' = IF es.enableValidation /\ ~valid
           THEN [es EXCEPT !.pc = "returned", !.result = "failure"]
           ELSE IF 1 <= es.retryAttempts
                THEN [es EXCEPT !.pc = "attempt", !.attempt = 1]
                ELSE [es EXCEPT !.pc = "returned", !.attempt = 1, !.result = "failure"]
  /\ UNCHANGED <<now, templates, updatedAtGuard, kcalls, foreign, minInterval, rmq, tp, dbVars,
                 brokerVars, schedVars, pumpVars, workerVars, histVars>>

\* Mutant of WaitsAfter: <= for <.
WaitsAfterEvery(attempt, retryAttempts) == attempt <= retryAttempts

\* sendWithRetry: if (attempt < this.config.retryAttempts)
WaitsAfter(attempt, retryAttempts) == attempt < retryAttempts

\* sendWithRetry, one pass of the loop body: the provider is invoked and
\* succeeds ("ok"), returns success: false ("fail") or throws ("throw").
sendWithRetryAttempt(outcome) ==
  /\ es.pc = "attempt"
  /\ LET called == [es EXCEPT !.calls = @ + 1, !.outcomes = Append(@, outcome)] IN
     es' = IF outcome = "ok"
           THEN [called EXCEPT !.pc = "returned", !.result = "success"]
           ELSE IF WaitsAfter(es.attempt, es.retryAttempts)
                THEN [called EXCEPT !.pc = "waiting",
                                    !.waits = Append(@, es.retryDelay * es.attempt)]
                ELSE IF es.attempt + 1 <= es.retryAttempts
                     THEN [called EXCEPT !.attempt = @ + 1]
                     ELSE [called EXCEPT !.pc = "returned", !.attempt = @ + 1,
                                         !.result = "failure"]
  /\ UNCHANGED <<now, templates, updatedAtGuard, kcalls, foreign, minInterval, rmq, tp, dbVars,
                 brokerVars, schedVars, pumpVars, workerVars, histVars>>

\* sendWithRetry: the timer of the delay fires, attempt++ and the loop
\* condition.
sendWithRetryWaited ==
  /\ es.pc = "waiting"
  /\ es' = IF es.attempt + 1 <= es.retryAttempts
           THEN [es EXCEPT !.pc = "attempt", !.attempt = @ + 1]
           ELSE [es EXCEPT !.pc = "returned", !.attempt = @ + 1, !.result = "failure"]
  /\ UNCHANGED <<now, templates, updatedAtGuard, kcalls, foreign, minInterval, rmq, tp, dbVars,
                 brokerVars, schedVars, pumpVars, workerVars, histVars>>

\* ------------------------------------------------------------- RabbitMQService
\* The calls of RabbitMQService.getInstance of one process. A RabbitMQ object
\* is named by the order of its construction (1, 2, ...); created counts the
\* objects constructed, local[c] is the `instance` constant of call c and
\* got[c] what the call returned.
Callers == 1..NCallers

NoInstance ==
  [instance |-> NULL, created |-> 0,
   pc |-> [c \in Callers |-> "idle"],
   local |-> [c \in Callers |-> NULL],
   got |-> [c \in Callers |-> NULL]]

\* getInstance up to its await: the test of the static field and, when it is
\* null, new RabbitMQ() and the start of connect(); otherwise the return.
getInstance(c) ==
  /\ rmq.pc[c] = "idle"
  /\ rmq' = IF rmq.instance = NULL
            THEN [rmq EXCEPT !.created = @ + 1, !.local[c] = rmq.created + 1,
                             !.pc[c] = "connecting"]
            ELSE [rmq EXCEPT !.got[c] = rmq.instance, !.pc[c] = "returned"]
  /\ UNCHANGED <<now, templates, updatedAtGuard, kcalls, foreign, minInterval, es, tp, dbVars,
                 brokerVars, schedVars, pumpVars, workerVars, histVars>>

\* connect: amqlib.connect has resolved, createChannel is awaited.
connectConnected(c) ==
  /\ rmq.pc[c] = "connecting"
  /\ rmq' = [rmq EXCEPT !.pc[c] = "channel"]
  /\ UNCHANGED <<now, templates, updatedAtGuard, kcalls, foreign, minInterval, es, tp, dbVars,
                 brokerVars, schedVars, pumpVars, workerVars, histVars>>

\* connect: amqlib.connect or createChannel rejects; getInstance rejects and
\* the static field is left as it is.
connectFails(c) ==
  /\ rmq.pc[c] \in {"connecting", "channel"}
  /\ rmq' = [rmq EXCEPT !.pc[c] = "threw"]
  /\ UNCHANGED <<now, templates, updatedAtGuard, kcalls, foreign, minInterval, es, tp, dbVars,
                 brokerVars, schedVars, pumpVars, workerVars, histVars>>

\* connect has returned: RabbitMQService.instance = instance; return
\* RabbitMQService.instance.
getInstanceAssign(c) ==
  /\ rmq.pc[c] = "channel"
  /\ rmq' = [rmq EXCEPT !.instance = rmq.local[c], !.got[c] = rmq.local[c],
                        !.pc[c] = "returned"]
  /\ UNCHANGED <<now, templates, updatedAtGuard, kcalls, foreign, minInterval, es, tp, dbVars,
                 brokerVars, schedVars, pumpVars, workerVars, histVars>>

\* ------------------------------------------------------------- TemplateProcessor
\* A string is a sequence of pieces; a piece is a run of plain text, a
\* placeholder the regex of processAdvancedSyntax matches ([[key]] or
\* [[key || fallback]]), or bracketed text that regex does not match and the
\* regex of the strict pass does ([[first name]]).
Undefined == ""   \* the fallback group of a match without || (a fallback has >= 1 character)

Text(t) == [kind |-> "text", key |-> "", fallback |-> Undefined, text |-> t]

Placeholder(key, fallback) ==
  [kind |-> "placeholder", key |-> key, fallback |-> fallback, text |-> ""]

Unmatched == [kind |-> "unmatched", key |-> "", fallback |-> Undefined, text |-> "[[first name]]"]

\* String.prototype.toLowerCase on the keys of the model.
ToLowerCase(key) ==
  CASE key = "firstName" -> "firstname"
    [] key = "Unsubscribe" -> "unsubscribe"
    [] key = "Promo" -> "promo"
    [] key \in {"currentYear", "CURRENTYEAR"} -> "currentyear"
    [] key = "currentDate" -> "currentdate"
    [] key = "currentMonth" -> "currentmonth"
    [] key = "currentDay" -> "currentday"
    [] key = "aiOpener" -> "aiopener"
    [] OTHER -> key

normalizeKey(key, config) == IF config.caseSensitive THEN key ELSE ToLowerCase(key)

\* getLeadVariables: the lead's fields under lower-case names, then the
\* custom variables under their normalised keys.
getLeadVariables(leadData, config) ==
  LET custom == {<<normalizeKey(c[1], config), c[2]>> : c \in config.customVariables}
      names == {"id", "firstname"} \cup {c[1] : c \in custom} IN
  [name \in names |->
     IF \E c \in custom : c[1] = name
     THEN (CHOOSE c \in custom : c[1] = name)[2]
     ELSE IF name = "id" THEN leadData.id ELSE leadData.firstName]

\* createSpecialVariables: the keys of the object it returns.
specialVariables ==
  {"unsubscribe", "currentDate", "currentYear", "currentMonth", "currentDay", "aiOpener"}

\* The special functions the keys of the model can reach: unsubscribe and
\* currentYear (new Date().getFullYear().toString()).
SpecialResult(name, fallback, variables, config, clock) ==
  CASE name = "unsubscribe" ->
         IF config.unsubscribeBaseUrl = "" \/ variables["id"] = <<>>
         THEN IF fallback = Undefined THEN <<>> ELSE <<Text(fallback)>>
         ELSE <<Text(config.unsubscribeBaseUrl), Text("unsubscribe/")>> \o variables["id"]
    [] name = "currentYear" -> <<Text(ToString(clock))>>
    [] OTHER -> <<>>

\* processAdvancedSyntax, the callback of matches.map: the replacement of
\* one match.
Replacement(match, variables, config, clock) ==
  LET normalized == normalizeKey(match.key, config) IN
  IF normalized \in DOMAIN variables /\ variables[normalized] # <<>>
  THEN variables[normalized]
  ELSE IF config.enableSpecialVariables /\ normalized \in specialVariables
       THEN SpecialResult(normalized, match.fallback, variables, config, clock)
       ELSE IF match.fallback # Undefined
            THEN <<Text(match.fallback)>>
            ELSE config.undefinedVariableReplacement

\* acc.replace(raw, replacement): the first occurrence of raw.
ReplaceFirst(acc, raw, replacement) ==
  IF \E i \in 1..Len(acc) : acc[i] = raw
  THEN LET i == CHOOSE i \in 1..Len(acc) : acc[i] = raw /\ \A j \in 1..(i - 1) : acc[j] # raw IN
       SubSeq(acc, 1, i - 1) \o replacement \o SubSeq(acc, i + 1, Len(acc))
  ELSE acc

RECURSIVE Reduce(_, _, _, _, _)
\* replacements.reduce((acc, {raw, replacement}) => acc.replace(raw, replacement), template)
Reduce(acc, matches, variables, config, clock) ==
  IF matches = <<>> THEN acc
  ELSE Reduce(ReplaceFirst(acc, Head(matches), Replacement(Head(matches), variables, config, clock)),
              Tail(matches), variables, config, clock)

IsMatch(piece) == piece.kind = "placeholder"

processAdvancedSyntax(template, variables, config, clock) ==
  Reduce(template, SelectSeq(template, IsMatch), variables, config, clock)

\* Mutant of ReplaceBrackets: the strict pass replaces nothing.
KeepBrackets(processed, replacement) == processed

RECURSIVE ReplaceBrackets(_, _)
\* processed.replace(/\[\[[^\]]+\]\]/g, undefinedVariableReplacement)
ReplaceBrackets(processed, replacement) ==
  IF processed = <<>> THEN <<>>
  ELSE (IF Head(processed).kind \in {"placeholder", "unmatched"}
        THEN replacement ELSE <<Head(processed)>>)
       \o ReplaceBrackets(Tail(processed), replacement)

replaceVariables(template, variables, config, clock) ==
  LET processed == processAdvancedSyntax(template, variables, config, clock) IN
  IF ~config.allowUndefinedVariables
  THEN ReplaceBrackets(processed, config.undefinedVariableReplacement)
  ELSE processed

TemplateProcessor(caseSensitive, allowUndefinedVariables, undefinedVariableReplacement, customVariables, enableSpecialVariables, unsubscribeBaseUrl) ==
  [caseSensitive |-> caseSensitive, allowUndefinedVariables |-> allowUndefinedVariables,
   undefinedVariableReplacement |-> undefinedVariableReplacement,
   customVariables |-> customVariables, enableSpecialVariables |-> enableSpecialVariables,
   unsubscribeBaseUrl |-> unsubscribeBaseUrl]

\* new TemplateProcessor(): the defaults of the constructor.
DefaultConfig == TemplateProcessor(FALSE, TRUE, <<>>, {}, TRUE, "")

Years == 2026..2027

NoTemplate ==
  [config |-> DefaultConfig, lead |-> [id |-> <<>>, firstName |-> <<>>],
   template |-> <<>>, clock |-> 2026, runs |-> <<>>]

\* processTemplate: "" for an empty template, else replaceVariables on the
\* lead's variables; the output is recorded with the clock it was made at.
processTemplate ==
  /\ Len(tp.runs) < MaxRuns
  /\ LET output == IF tp.template = <<>> THEN <<>>
                   ELSE replaceVariables(tp.template, getLeadVariables(tp.lead, tp.config),
                                         tp.config, tp.clock) IN
     tp' = [tp EXCEPT !.runs = Append(@, [clock |-> tp.clock, output |-> output])]
  /\ UNCHANGED <<now, templates, updatedAtGuard, kcalls, foreign, minInterval, es, rmq, dbVars,
                 brokerVars, schedVars, pumpVars, workerVars, histVars>>

\* The host's clock passes into the next year.
NewYear ==
  /\ tp.clock + 1 \in Years
  /\ tp' = [tp EXCEPT !.clock = @ + 1]
  /\ UNCHANGED <<now, templates, updatedAtGuard, kcalls, foreign, minInterval, es, rmq, dbVars,
                 brokerVars, schedVars, pumpVars, workerVars, histVars>>

\* ------------------------------------------------------------- system
\* The clock advances by an hour.
Tick ==
  /\ now < MaxTime
  /\ now' = now + 1
  /\ UNCHANGED <<restVars, dbVars, brokerVars, schedVars, pumpVars, workerVars, histVars>>

\* A valid enrollment: PENDING at step 0, created at hour 0; the clock
\* starts two hours later.
InitialState(id) ==
  [leadId |-> LeadId, sequenceId |-> SequenceId, currentStep |-> 0,
   status |-> "PENDING", lastSentAt |-> NULL, failureCount |-> 0, updatedAt |-> 0]

\* Nothing enqueued, published, delivered or called yet; every process at
\* the head of its loop; every step with the shortest interval.
PipelineAtRest ==
  /\ kcalls = <<>>
  /\ minInterval = ShortIntervals
  /\ foreign = {}
  /\ sent = [k \in 1..NSteps |-> 0]
  /\ outbox = <<>>
  /\ locked = [p \in Pumps |-> {}]
  /\ queue = EmptyBag
  /\ dlq = EmptyBag
  /\ spc = [s \in Schedulers |-> "tick"]
  /\ sbatch = [s \in Schedulers |-> <<>>]
  /\ stx = [s \in Schedulers |-> <<>>]
  /\ ppc = [p \in Pumps |-> "idle"]
  /\ pjobs = [p \in Pumps |-> <<>>]
  /\ pconn = [p \in Pumps |-> FALSE]
  /\ wpc = [w \in Workers |-> "idle"]
  /\ wmsg = [w \in Workers |-> NoMessage]
  /\ pubCount = <<>>
  /\ pubState = <<>>
  /\ advCount = [k \in 1..NSteps |-> 0]
  /\ republished = [k \in 1..NSteps |-> <<>>]

EmptyPipeline ==
  /\ es = EmailServiceDefault
  /\ rmq = NoInstance
  /\ tp = NoTemplate
  /\ PipelineAtRest

Init ==
  /\ now = 2
  /\ \E c \in Catalogs :
       /\ leads = [l \in {LeadId} |-> c.lead]
       /\ templates = c.templates
  /\ updatedAtGuard = TRUE
  /\ lss = [id \in LeadStateIds |-> InitialState(id)]
  /\ EmptyPipeline

Next ==
  \/ Tick
  \/ \E s \in Schedulers : SchedTick(s)
  \/ \E s \in Schedulers : SchedCount(s)
  \/ \E s \in Schedulers : SchedCommit(s)
  \/ \E s \in Schedulers : SchedRestart(s)
  \/ \E p \in SpecPumps : PumpSelect(p)
  \/ \E p \in SpecPumps : PumpClaim(p)
  \/ \E p \in SpecPumps : PumpPublish(p)
  \/ \E p \in SpecPumps : PumpConnectFail(p)
  \/ \E p \in SpecPumps : PumpSendFail(p)
  \/ \E p \in SpecPumps : PumpCrash(p)
  \/ \E w \in Workers : WorkerDeliver(w)
  \/ \E w \in Workers : WorkerProcessLead(w)
  \/ \E w \in Workers : WorkerFetchFail(w)
  \/ \E w \in Workers : WorkerAdvance(w)
  \/ \E w \in Workers : WorkerAck(w)
  \/ \E w \in Workers : WorkerRetry(w)
  \/ \E w \in Workers : WorkerReject(w)
  \/ \E w \in Workers : WorkerCrash(w)

Spec == Init /\ [][Next]_vars

\* ------------------------------------------------------------- HappySpec
\* The happy path: a valid lead, step 1 with or without a template, no broker
\* or database failure and no process killed from outside; every process takes
\* its steps under weak fairness.  The clock is followed while an enrollment
\* that is PENDING or RUNNING waits for its hour; later hours change no
\* condition of getPendingLeads.
HappyTick ==
  /\ \E id \in LeadStateIds :
       lss[id].status \in {"PENDING", "RUNNING"} /\ ~IsPending(id)
  /\ now' = now + 1
  /\ UNCHANGED <<restVars, dbVars, brokerVars, schedVars, pumpVars, workerVars, histVars>>

SchedulerStep(s) == SchedTick(s) \/ SchedCount(s) \/ SchedCommit(s)

PumpStep(p) == PumpSelect(p) \/ PumpClaim(p) \/ PumpPublish(p)

WorkerStep(w) ==
  WorkerDeliver(w) \/ WorkerProcessLead(w) \/ WorkerAdvance(w) \/ WorkerAck(w)

HappyInit ==
  /\ now = 2
  /\ leads = [l \in {LeadId} |-> ValidLead]
  /\ templates \in TemplateProfiles
  /\ updatedAtGuard = TRUE
  /\ lss = [id \in LeadStateIds |-> InitialState(id)]
  /\ EmptyPipeline

HappyNext ==
  \/ HappyTick
  \/ \E s \in HappySchedulers : SchedTick(s)
  \/ \E s \in HappySchedulers : SchedCount(s)
  \/ \E s \in HappySchedulers : SchedCommit(s)
  \/ \E p \in SpecPumps : PumpSelect(p)
  \/ \E p \in SpecPumps : PumpClaim(p)
  \/ \E p \in SpecPumps : PumpPublish(p)
  \/ \E w \in Workers : WorkerDeliver(w)
  \/ \E w \in Workers : WorkerProcessLead(w)
  \/ \E w \in Workers : WorkerAdvance(w)
  \/ \E w \in Workers : WorkerAck(w)

HappyFairness ==
  /\ WF_vars(HappyTick)
  /\ \A s \in HappySchedulers : WF_vars(SchedulerStep(s))
  /\ \A p \in SpecPumps : WF_vars(PumpStep(p))
  /\ \A w \in Workers : WF_vars(WorkerStep(w))

HappySpec == HappyInit /\ [][HappyNext]_vars /\ HappyFairness

\* ------------------------------------------------------------- StopSpec
\* The statuses no component of the pipeline leaves.
TerminalStatuses == {"COMPLETED", "FAILED", "PAUSED"}

\* An actor outside the pipeline pauses or fails an enrollment that is
\* PENDING or RUNNING.
ExternalStop(id) ==
  /\ lss[id].status \in {"PENDING", "RUNNING"}
  /\ \E st \in {"PAUSED", "FAILED"} : lss' = [lss EXCEPT ![id].status = st]
  /\ UNCHANGED <<now, restVars, leads, outbox, locked, brokerVars, schedVars,
                 pumpVars, workerVars, histVars>>

\* The pipeline of Spec for the valid lead, with enrollments stopped from
\* outside at any moment.
StopInit ==
  /\ now = 2
  /\ leads = [l \in {LeadId} |-> ValidLead]
  /\ templates = AllTemplates
  /\ updatedAtGuard = TRUE
  /\ lss = [id \in LeadStateIds |-> InitialState(id)]
  /\ EmptyPipeline

StopNext ==
  \/ Next
  \/ \E id \in LeadStateIds : ExternalStop(id)

StopSpec == StopInit /\ [][StopNext]_vars

\* ------------------------------------------------------------- KeySpec
\* Calls of makeIdemKey with 3, 4 and 5 arguments at different hours; the
\* two latest calls are kept.
KeyArgs ==
  LET three == {<<s, l, n>> : s \in {"S1"}, l \in {"L1", "L2"}, n \in {1, NSteps}}
      four == {a \o <<t>> : a \in three, t \in {0, 1}}
      five == {a \o <<x>> : a \in four, x \in {"", "x"}}
  IN three \cup four \cup five

\* The five values a call stands for: attempt = 0, suffix = "" when left out.
NormalArgs(args) ==
  <<args[1], args[2], args[3],
    IF Len(args) >= 4 THEN args[4] ELSE 0,
    IF Len(args) >= 5 THEN args[5] ELSE "">>

KeyCall ==
  /\ \E args \in KeyArgs :
       kcalls' = <<[args |-> args, key |-> makeIdemKeyCall(args), at |-> now]>>
                 \o SubSeq(kcalls, 1, Min(1, Len(kcalls)))
  /\ UNCHANGED <<now, templates, updatedAtGuard, foreign, minInterval, es, rmq, tp, dbVars, brokerVars, schedVars,
                 pumpVars, workerVars, histVars>>

KeyInit == StopInit

KeyNext ==
  \/ Tick
  \/ KeyCall

KeySpec == KeyInit /\ [][KeyNext]_vars

\* ------------------------------------------------------------- WorkerSpec
\* The Workers alone, consuming messages that a publisher other than the Pump
\* put on the queue: a well-formed message for the enrollment, a text that is
\* not JSON, and objects that PendingLeadSchema rejects.
WellFormedMessage ==
  [lead_state_id |-> "LS1", lead_id |-> LeadId, sequence_id |-> SequenceId,
   current_step |-> 0, step_id |-> SequenceStep[1].id, step_number |-> 1,
   min_interval_min |-> SequenceStep[1].minIntervalMin]

MalformedMessages ==
  {NotJson,
   [lead_state_id |-> "LS1"],
   [WellFormedMessage EXCEPT !.current_step = -1],
   [WellFormedMessage EXCEPT !.step_number = 0]}

ForeignMessages == {WellFormedMessage} \cup MalformedMessages

\* A publisher puts one of the messages on the queue, each at most once.
ForeignPublish(content) ==
  /\ content \notin foreign
  /\ foreign' = foreign \cup {content}
  /\ queue' = queue (+) SetToBag({NewMessage(content)})
  /\ UNCHANGED <<now, templates, updatedAtGuard, kcalls, minInterval, es, rmq, tp, dbVars, dlq,
                 schedVars, pumpVars, workerVars, histVars>>

WorkerInit == StopInit

WorkerNext ==
  \/ \E content \in ForeignMessages : ForeignPublish(content)
  \/ \E w \in Workers : WorkerDeliver(w)
  \/ \E w \in Workers : WorkerProcessLead(w)
  \/ \E w \in Workers : WorkerFetchFail(w)
  \/ \E w \in Workers : WorkerAdvance(w)
  \/ \E w \in Workers : WorkerAck(w)
  \/ \E w \in Workers : WorkerRetry(w)
  \/ \E w \in Workers : WorkerReject(w)
  \/ \E w \in Workers : WorkerCrash(w)

WorkerSpec == WorkerInit /\ [][WorkerNext]_vars

\* ------------------------------------------------------------- RetrySpec
\* The Workers on the well-formed message, the retry path followed
\* statement by statement, with crashes between sendToQueue and ack.
\* The messages in existence: ready, delivered and unacknowledged, or dead.
MessagesInExistence ==
  BagCardinality(queue) + BagCardinality(dlq)
  + Cardinality({w \in Workers : wpc[w] \notin {"idle", "exited"}})

RetryNext ==
  \/ ForeignPublish(WellFormedMessage)
  \/ \E w \in Workers : WorkerDeliver(w)
  \/ \E w \in Workers : WorkerProcessLead(w)
  \/ \E w \in Workers : WorkerFetchFail(w)
  \/ \E w \in Workers : WorkerAdvance(w)
  \/ \E w \in Workers : WorkerAck(w)
  \/ \E w \in Workers : WorkerRepublish(w)
  \/ \E w \in Workers : WorkerRetryAck(w)
  \/ \E w \in Workers : WorkerReject(w)
  \/ \E w \in Workers : MessagesInExistence < MaxQueue /\ WorkerCrash(w)

RetrySpec == WorkerInit /\ [][RetryNext]_vars

\* ------------------------------------------------------------- SendSpec
\* One call of sendEmail on an EmailService of any configuration, with
\* valid or invalid email data and a provider that succeeds, fails or throws
\* at each invocation.
ProviderOutcomes == {"ok", "fail", "throw"}

SendInit ==
  /\ now = 2
  /\ leads = [l \in {LeadId} |-> ValidLead]
  /\ templates = AllTemplates
  /\ updatedAtGuard = TRUE
  /\ lss = [id \in LeadStateIds |-> InitialState(id)]
  /\ rmq = NoInstance
  /\ tp = NoTemplate
  /\ PipelineAtRest
  /\ \E n \in 0..retryAttemptsDefault, d \in {retryDelayDefault, 500}, v \in BOOLEAN :
       es = NewEmailService(n, d, v)

SendNext ==
  \/ \E valid \in BOOLEAN : sendEmail(valid)
  \/ \E outcome \in ProviderOutcomes : sendWithRetryAttempt(outcome)
  \/ sendWithRetryWaited

SendSpec == SendInit /\ [][SendNext]_vars

\* ------------------------------------------------------------- InstanceSpec
\* NCallers calls of getInstance in one process, interleaved at their awaits.
InstanceNext ==
  \E c \in Callers :
    \/ getInstance(c)
    \/ connectConnected(c)
    \/ connectFails(c)
    \/ getInstanceAssign(c)

InstanceSpec == StopInit /\ [][InstanceNext]_vars

\* ------------------------------------------------------------- TemplateSpec
\* processTemplate run up to MaxRuns times on any template of up to
\* MaxTokens pieces, any lead and any configuration of the processor.
PlaceholderKeys ==
  {"firstName", "firstname", "unsubscribe", "Unsubscribe", "currentYear", "CURRENTYEAR",
   "Promo", "nokey"}

Pieces ==
  {Text("Hi "), Unmatched}
  \cup {Placeholder(key, fallback) : key \in PlaceholderKeys, fallback \in {Undefined, "friend"}}

RECURSIVE TemplatesOf(_)
TemplatesOf(n) ==
  IF n = 0 THEN {<<>>}
  ELSE LET shorter == TemplatesOf(n - 1) IN
       shorter \cup {Append(t, piece) : t \in {x \in shorter : Len(x) = n - 1}, piece \in Pieces}

Configs ==
  {TemplateProcessor(cs, au, ur, cv, sv, url) :
     cs \in BOOLEAN, au \in BOOLEAN, ur \in {<<>>, <<Text("N/A")>>},
     cv \in {{}, {<<"Promo", <<Text("sale")>>>>}}, sv \in BOOLEAN, url \in {"", "https://u/"}}

TemplateInit ==
  /\ now = 2
  /\ leads = [l \in {LeadId} |-> ValidLead]
  /\ templates = AllTemplates
  /\ updatedAtGuard = TRUE
  /\ lss = [id \in LeadStateIds |-> InitialState(id)]
  /\ es = EmailServiceDefault
  /\ rmq = NoInstance
  /\ PipelineAtRest
  /\ \E config \in Configs, template \in TemplatesOf(MaxTokens),
        firstName \in {<<>>, <<Text("Ada")>>} :
       tp = [config |-> config, lead |-> [id |-> <<Text("L1")>>, firstName |-> firstName],
             template |-> template, clock |-> 2026, runs |-> <<>>]

TemplateNext == processTemplate \/ NewYear

TemplateSpec == TemplateInit /\ [][TemplateNext]_vars

\* ------------------------------------------------------------- ShutdownSpec
\* The Workers of WorkerSpec, each stopped by a signal at any moment.
ShutdownNext ==
  \/ WorkerNext
  \/ \E w \in Workers : WorkerShutdown(w)

ShutdownSpec == WorkerInit /\ [][ShutdownNext]_vars

\* ------------------------------------------------------------- SchedSpec
\* The Schedulers alone, with either version of getPendingLeads deployed: no
\* other component changes the database.
SchedInit ==
  /\ now = 2
  /\ \E c \in Catalogs :
       /\ leads = [l \in {LeadId} |-> c.lead]
       /\ templates = c.templates
  /\ updatedAtGuard \in BOOLEAN
  /\ lss = [id \in LeadStateIds |-> InitialState(id)]
  /\ EmptyPipeline

SchedNext ==
  \/ Tick
  \/ \E s \in Schedulers : SchedTick(s)
  \/ \E s \in Schedulers : SchedCount(s)
  \/ \E s \in Schedulers : SchedCommit(s)
  \/ \E s \in Schedulers : SchedRestart(s)

SchedSpec == SchedInit /\ [][SchedNext]_vars

\* ------------------------------------------------------------- TxSpec
\* The Schedulers alone, the enqueue transaction followed statement by
\* statement, with failures after the INSERT.
TxNext ==
  \/ Tick
  \/ \E s \in Schedulers : SchedTick(s)
  \/ \E s \in Schedulers : SchedCount(s)
  \/ \E s \in Schedulers : SchedInsert(s)
  \/ \E s \in Schedulers : SchedUpdateCommit(s)
  \/ \E s \in Schedulers : SchedTxFail(s)
  \/ \E s \in Schedulers : SchedRestart(s)

TxSpec == SchedInit /\ [][TxNext]_vars

\* ------------------------------------------------------------- QuerySpec
\* The Schedulers alone on an enrollment in any state the pipeline can have
\* brought it to, with either version of getPendingLeads and steps with short
\* and long intervals.
Statuses == {"PENDING", "RUNNING", "COMPLETED", "FAILED", "PAUSED"}

LongInterval == MinIntervalMin + 90

\* The rows an enrollment can hold: sent steps and lastSentAt go together,
\* PENDING is before the first step, COMPLETED is at the last step.
EnrollmentRows ==
  {r \in [leadId : {LeadId}, sequenceId : {SequenceId}, currentStep : 0..NSteps,
          status : Statuses, lastSentAt : {NULL} \cup 0..2, failureCount : {0},
          updatedAt : 0..2] :
     /\ r.currentStep = 0 <=> r.lastSentAt = NULL
     /\ r.lastSentAt <= r.updatedAt
     /\ r.status = "PENDING" => r.currentStep = 0
     /\ r.status = "COMPLETED" <=> r.currentStep = NSteps}

\* The Outbox row of step k of the enrollment, published.
PublishedRow(k, at) ==
  LET lead == [lead_state_id |-> "LS1", lead_id |-> LeadId, sequence_id |-> SequenceId,
               current_step |-> k - 1, step_id |-> SequenceStep[k].id,
               step_number |-> k, min_interval_min |-> SequenceStep[k].minIntervalMin]
  IN [id |-> k, topic |-> SEQUENCE_TOPIC, payload |-> lead,
      idemKey |-> handleBatchIdemKey(lead), processed |-> TRUE, processedAt |-> at,
      retries |-> 1, maxRetries |-> OutboxMaxRetriesDefault, createdAt |-> at]

\* The Outbox of an enrollment row: a row for every step sent and, when
\* inflight, the row of the next step.
EnrollmentOutbox(r, inflight) ==
  [k \in 1..(r.currentStep + IF inflight THEN 1 ELSE 0) |->
     PublishedRow(k, IF k <= r.currentStep THEN 0 ELSE r.updatedAt)]

QueryInit ==
  /\ now = 2
  /\ leads = [l \in {LeadId} |-> ValidLead]
  /\ templates = AllTemplates
  /\ updatedAtGuard \in BOOLEAN
  /\ minInterval \in [1..NSteps -> {MinIntervalMin, LongInterval}]
  /\ kcalls = <<>>
  /\ es = EmailServiceDefault
  /\ rmq = NoInstance
  /\ tp = NoTemplate
  /\ foreign = {}
  /\ sent = [k \in 1..NSteps |-> 0]
  /\ \E r \in EnrollmentRows, inflight \in BOOLEAN :
       /\ r.status = "PENDING" => ~inflight
       /\ (r.status = "RUNNING" /\ r.currentStep = 0) => inflight
       /\ r.currentStep = NSteps => ~inflight
       /\ lss = [id \in LeadStateIds |-> r]
       /\ outbox = EnrollmentOutbox(r, inflight)
  /\ locked = [p \in Pumps |-> {}]
  /\ queue = EmptyBag
  /\ dlq = EmptyBag
  /\ spc = [s \in Schedulers |-> "tick"]
  /\ sbatch = [s \in Schedulers |-> <<>>]
  /\ stx = [s \in Schedulers |-> <<>>]
  /\ ppc = [p \in Pumps |-> "idle"]
  /\ pjobs = [p \in Pumps |-> <<>>]
  /\ pconn = [p \in Pumps |-> FALSE]
  /\ wpc = [w \in Workers |-> "idle"]
  /\ wmsg = [w \in Workers |-> NoMessage]
  /\ pubCount = [i \in DOMAIN outbox |-> 1]
  /\ pubState = [i \in DOMAIN outbox |-> "published"]
  /\ advCount = [k \in 1..NSteps |-> 0]
  /\ republished = [k \in 1..NSteps |-> <<>>]

QuerySpec == QueryInit /\ [][SchedNext]_vars

\* ------------------------------------------------------------- PumpSpec
\* A seeded Outbox table: PumpRows unprocessed rows, one per lead, created an
\* hour apart; rows 1 and 2 have been claimed and reverted r[1] and r[2]
\* times before.
SeededPayload(i) ==
  [lead_state_id |-> <<"LS", i>>, lead_id |-> Atoms[i + 4], sequence_id |-> SequenceId,
   current_step |-> 0, step_id |-> SequenceStep[1].id, step_number |-> 1,
   min_interval_min |-> SequenceStep[1].minIntervalMin]

SeededOutbox(r) ==
  [i \in 1..PumpRows |->
     [id |-> i, topic |-> SEQUENCE_TOPIC, payload |-> SeededPayload(i),
      idemKey |-> handleBatchIdemKey(SeededPayload(i)),
      processed |-> FALSE, processedAt |-> NULL,
      retries |-> IF i \in DOMAIN r THEN r[i] ELSE 0,
      maxRetries |-> OutboxMaxRetriesDefault, createdAt |-> i - PumpRows]]

PumpInit ==
  /\ now = 2
  /\ leads = [l \in {LeadId} |-> ValidLead]
  /\ templates = AllTemplates
  /\ updatedAtGuard = TRUE
  /\ kcalls = <<>>
  /\ es = EmailServiceDefault
  /\ rmq = NoInstance
  /\ tp = NoTemplate
  /\ foreign = {}
  /\ minInterval = ShortIntervals
  /\ sent = [k \in 1..NSteps |-> 0]
  /\ lss = [id \in LeadStateIds |-> InitialState(id)]
  /\ \E r \in [1..2 -> {0, OutboxMaxRetriesDefault - 1, OutboxMaxRetriesDefault}] :
       outbox = SeededOutbox(r)
  /\ locked = [p \in Pumps |-> {}]
  /\ queue = EmptyBag
  /\ dlq = EmptyBag
  /\ spc = [s \in Schedulers |-> "tick"]
  /\ sbatch = [s \in Schedulers |-> <<>>]
  /\ stx = [s \in Schedulers |-> <<>>]
  /\ ppc = [p \in Pumps |-> "idle"]
  /\ pjobs = [p \in Pumps |-> <<>>]
  /\ pconn = [p \in Pumps |-> FALSE]
  /\ wpc = [w \in Workers |-> "idle"]
  /\ wmsg = [w \in Workers |-> NoMessage]
  /\ pubCount = [i \in 1..PumpRows |-> 0]
  /\ pubState = [i \in 1..PumpRows |-> "new"]
  /\ advCount = [k \in 1..NSteps |-> 0]
  /\ republished = [k \in 1..NSteps |-> <<>>]

FailedHandoffs == Cardinality({i \in DOMAIN pubState : pubState[i] \in {"lost", "reverted"}})

PumpNext ==
  \/ \E p \in Pumps : PumpSelect(p)
  \/ \E p \in Pumps : PumpClaim(p)
  \/ \E p \in Pumps : PumpPublish(p)
  \/ \E p \in Pumps : FailedHandoffs < MaxPumpFailures /\ PumpConnectFail(p)
  \/ \E p \in Pumps : FailedHandoffs < MaxPumpFailures /\ PumpSendFail(p)
  \/ \E p \in Pumps : PumpCrash(p)

PumpSpec == PumpInit /\ [][PumpNext]_vars

\* ============================================================= claims
\* All messages on the broker or held by a worker, by step_number.
LiveMessages ==
  BagToSet(queue) \cup {wmsg[w] : w \in {v \in Workers : wpc[v] # "idle"}}

\* C1: under broker redelivery the advancement increments currentStep at
\* most once per idemKey / outbox row, that is, at most once per message of
\* a step.
C1_AtMostOneAdvancePerMessage ==
  \A k \in DOMAIN advCount : advCount[k] <= 1

\* C2: no two Outbox rows share an idemKey, and at most one row exists per
\* (sequence, lead, step), also when two Schedulers run the enqueue
\* transaction for the same lead concurrently.
C2_OneRowPerIdemKeyAndStep ==
  \A i, j \in OutboxIds :
    (\/ outbox[i].idemKey = outbox[j].idemKey
     \/ /\ outbox[i].payload.sequence_id = outbox[j].payload.sequence_id
        /\ outbox[i].payload.lead_id = outbox[j].payload.lead_id
        /\ outbox[i].payload.step_number = outbox[j].payload.step_number)
    => i = j

\* C2 witness: two Schedulers passed the count check for the same lead, one
\* committed its row and the INSERT of the other was rejected.
C2_Witness ==
  /\ Len(outbox) = 1
  /\ \E s \in Schedulers : spc[s] = "unique"

\* C3: every step transition c -> c+1 of a LeadSequenceState is backed by an
\* Outbox row whose idemKey is H(sequenceId, leadId, c+1, 0, "").
C3_TransitionBackedByRow ==
  [][\A id \in LeadStateIds :
       lss'[id].currentStep = lss[id].currentStep + 1
       => \E i \in OutboxIds :
            outbox[i].idemKey =
              makeIdemKey(lss[id].sequenceId, lss[id].leadId,
                          lss[id].currentStep + 1, 0, "")]_vars

\* C4: every LeadSequenceState has currentStep <= max(stepNumber) of its
\* sequence, whatever the ticks, deliveries and redeliveries.
C4_CurrentStepAtMostMax ==
  \A id \in LeadStateIds : lss[id].currentStep <= MaxStepNumber(lss[id].sequenceId)

\* C4 witness: the state is at the last step and a further delivery for it
\* has been refused by the advancement.
C4_Witness ==
  \E id \in LeadStateIds :
    /\ lss[id].currentStep = MaxStepNumber(lss[id].sequenceId)
    /\ \E w \in Workers :
         /\ wpc[w] = "failed"
         /\ wmsg[w].content.lead_state_id = id
         /\ LeadIsEligible(wmsg[w].content)

\* C5: a LeadSequenceState has status COMPLETED if and only if its
\* currentStep equals max(stepNumber) of its sequence.
C5_CompletedIffAtMax ==
  \A id \in LeadStateIds :
    lss[id].status = "COMPLETED"
    <=> lss[id].currentStep = MaxStepNumber(lss[id].sequenceId)

\* C5 witness: a Worker commit has completed the state, and the message is
\* acknowledged.
C5_Witness ==
  \E id \in LeadStateIds :
    /\ lss[id].status = "COMPLETED"
    /\ lss[id].lastSentAt # NULL
    /\ \A w \in Workers : wpc[w] = "idle"

\* The rows a pump holds: locked by its claim statement, or returned by it
\* and not yet handed to the broker.
HeldIds(p) ==
  locked[p] \cup
  (IF ppc[p] = "jobs" THEN {pjobs[p][k].id : k \in DOMAIN pjobs[p]} ELSE {})

\* C6: concurrent claims of two Pumps return disjoint sets of rows, every
\* eligible row is claimed by one of them (a claim below the CLAIM limit
\* leaves no eligible row unclaimed), and no row is published twice.
C6_ClaimsDisjointAndComplete ==
  /\ \A p, q \in Pumps : p # q => HeldIds(p) \cap HeldIds(q) = {}
  /\ \A p \in Pumps :
       (ppc[p] = "selected" /\ Cardinality(locked[p]) < CLAIM)
       => ~\E i \in OutboxIds :
             /\ outbox[i].processed = FALSE
             /\ outbox[i].retries < outbox[i].maxRetries
             /\ \A q \in Pumps : i \notin locked[q]
  /\ \A i \in OutboxIds : pubCount[i] <= 1

\* C6 witness: the claim statements of both pumps are in progress at once,
\* one with CLAIM rows and the other with the rest.
C6_Witness ==
  /\ ppc["p1"] = "selected" /\ ppc["p2"] = "selected"
  /\ Cardinality(locked["p1"]) = CLAIM
  /\ Cardinality(locked["p2"]) = 1

\* C7: after a failed publish whose error reached handleOutbox the row is
\* back at processed = false, processedAt = null, with the retries of the
\* claim.
C7_FailedPublishReverted ==
  \A i \in OutboxIds :
    pubState[i] = "reverted"
    => /\ outbox[i].processed = FALSE
       /\ outbox[i].processedAt = NULL
       /\ outbox[i].retries >= 1

\* C8: no row stays processed = true without ever having been published: a
\* processed row that was never published is still held by a pump that is
\* about to hand it over.
C8_ProcessedRowsArePublished ==
  \A i \in OutboxIds :
    (outbox[i].processed /\ pubCount[i] = 0) => \E p \in Pumps : i \in HeldIds(p)

\* C9: retries <= maxRetries for every row; retries changes only by a claim,
\* by exactly 1 and from below maxRetries; a row at retries = maxRetries is
\* never touched again.
C9_RetriesBounded ==
  /\ [](\A i \in OutboxIds : outbox[i].retries <= outbox[i].maxRetries)
  /\ [][\A i \in OutboxIds :
          /\ outbox'[i].retries # outbox[i].retries
             => /\ outbox'[i].retries = outbox[i].retries + 1
                /\ outbox[i].retries < outbox[i].maxRetries
                /\ ~outbox[i].processed /\ outbox'[i].processed
          /\ (~outbox[i].processed /\ outbox'[i].processed)
             => outbox'[i].retries = outbox[i].retries + 1
          /\ outbox[i].retries = outbox[i].maxRetries
             => outbox'[i] = outbox[i]]_vars

\* C9 witness: every pump is idle again; one row was claimed at
\* maxRetries - 1, its hand-off failed and it is at maxRetries; another row
\* was at maxRetries from the start and no claim took it.
C9_Witness ==
  /\ \A p \in Pumps : ppc[p] = "idle"
  /\ \E i, j \in OutboxIds :
       /\ outbox[i].retries = outbox[i].maxRetries /\ pubState[i] = "reverted"
       /\ outbox[j].retries = outbox[j].maxRetries /\ pubState[j] = "new"
       /\ ~outbox[j].processed
       /\ \A k \in OutboxIds \ {j} : outbox[k].processed

LiveMessagesOf(i) == {m \in LiveMessages : m.content = outbox[i].payload}

DeadMessagesOf(i) == {m \in BagToSet(dlq) : m.content = outbox[i].payload}

\* C11: for a lead without email, with isSubscribedToEmail = false or with
\* isEmailValid = 'INVALID', no delivery reaches the hand-over of the email
\* or the advancement, the published message is on the retry path until it
\* is in the DLQ with x-retries = 3, and the LeadSequenceState row stays as
\* the enqueue transaction left it.
C11_IneligibleLeadNeverSent ==
  \A id \in LeadStateIds :
    LET l == leads[lss[id].leadId] IN
    (l.email = "" \/ ~l.isSubscribedToEmail \/ l.isEmailValid = "INVALID")
    => /\ \A k \in DOMAIN sent : sent[k] = 0 /\ advCount[k] = 0
       /\ \A w \in Workers : wpc[w] \notin {"processed", "success"}
       /\ lss[id] = IF outbox = <<>> THEN InitialState(id)
                    ELSE [InitialState(id) EXCEPT !.status = "RUNNING",
                                                  !.updatedAt = outbox[1].createdAt]
       /\ \A i \in OutboxIds :
            pubCount[i] >= 1
            => \/ LiveMessagesOf(i) # {} /\ DeadMessagesOf(i) = {}
               \/ /\ LiveMessagesOf(i) = {}
                  /\ \E m \in DeadMessagesOf(i) : XRetries(m) = maxRetries

\* C11 witness: the lead's email is INVALID, the message of step 1 was
\* delivered four times and is in the DLQ, an hour or more after the enqueue.
C11_Witness ==
  /\ leads[LeadId].isEmailValid = "INVALID"
  /\ \E i \in OutboxIds : DeadMessagesOf(i) # {} /\ now > outbox[i].createdAt
  /\ Len(republished[1]) = maxRetries
  /\ \A w \in Workers : wpc[w] = "idle"

\* C12: a message for a step that has no template attached is failed by the
\* Worker: its email is not handed over, the LeadSequenceState is not
\* advanced by it, and no delivery of it is acknowledged as handled.
C12_NoTemplateNotAdvanced ==
  \A k \in DOMAIN templates :
    ~templates[k]
    => /\ sent[k] = 0
       /\ advCount[k] = 0
       /\ \A w \in Workers :
            wpc[w] \in {"processed", "success"}
            => wmsg[w].content.step_number # k

\* C13: while only Schedulers run, every LeadSequenceState gets at most one
\* Outbox row, with or without the "updatedAt" condition in getPendingLeads,
\* and a handleBatch that finds the idemKey of its lead in the Outbox goes no
\* further than the count query.
C13_SchedulerIdempotent ==
  /\ [](\A id \in LeadStateIds :
          Cardinality({i \in OutboxIds : outbox[i].payload.lead_state_id = id}) <= 1)
  /\ [][\A s \in Schedulers :
          (spc[s] = "batch" /\ spc'[s] = "tx")
          => CountIdemKey(handleBatchIdemKey(Head(sbatch[s]))) = 0]_vars

\* C13 witness: without the "updatedAt" condition both Schedulers ran again
\* in the hour of the enqueue, found the row and stopped; the Outbox has the
\* one row.
C13_Witness ==
  /\ ~updatedAtGuard
  /\ Len(outbox) = 1
  /\ outbox[1].createdAt = now
  /\ \A s \in Schedulers : spc[s] = "exists"

\* C14: the advancement to the final step sets the status COMPLETED, a
\* COMPLETED LeadSequenceState is not in the result of getPendingLeads, and
\* no tick that starts when it is COMPLETED takes it into its batch.
C14_CompletedNotEnqueued ==
  /\ [][\A id \in LeadStateIds :
          (/\ lss'[id].currentStep # lss[id].currentStep
           /\ lss'[id].currentStep = MaxStepNumber(lss[id].sequenceId))
          => lss'[id].status = "COMPLETED"]_vars
  /\ [](\A id \in LeadStateIds : lss[id].status = "COMPLETED" => ~IsPending(id))
  /\ [][\A s \in Schedulers :
          (spc[s] = "tick" /\ spc'[s] = "batch")
          => \A i \in DOMAIN sbatch'[s] :
               lss[sbatch'[s][i].lead_state_id].status # "COMPLETED"]_vars

\* C14 witness: every step was enqueued, delivered and advanced once, the
\* state is COMPLETED, the last delivery is acknowledged and the Schedulers
\* are at the head of their loops.
C14_Witness ==
  /\ \A id \in LeadStateIds : lss[id].status = "COMPLETED"
  /\ Len(outbox) = NSteps
  /\ \A k \in DOMAIN advCount : advCount[k] = 1
  /\ \A s \in Schedulers : spc[s] = "tick"
  /\ \A w \in Workers : wpc[w] = "idle"
  /\ queue = EmptyBag

\* C15: a LeadSequenceState whose status is COMPLETED, FAILED or PAUSED is
\* not changed in any field by any step, also with Outbox rows, scheduler
\* batches and broker messages for it in flight.
C15_TerminalStatesAreSinks ==
  [][\A id \in LeadStateIds :
       lss[id].status \in TerminalStatuses => lss'[id] = lss[id]]_vars

\* C15 witness: the enrollment was paused after the email of step 1 was
\* handed over; the advancement of that delivery matched no row, and a
\* Scheduler holds a batch with the lead taken before the pause.
C15_Witness ==
  \E id \in LeadStateIds :
    /\ lss[id].status = "PAUSED"
    /\ \E w \in Workers :
         /\ wpc[w] = "failed"
         /\ wmsg[w].content.lead_state_id = id
         /\ sent[wmsg[w].content.step_number] >= 1
         /\ advCount[wmsg[w].content.step_number] = 0
    /\ \E s \in Schedulers : spc[s] = "tx"

\* C16: within a LeadSequenceState the emails are handed over in increasing
\* step order: when the email of step k is handed over, no email of a step
\* j > k has been handed over before.
C16_SendsInStepOrder ==
  [][\A k \in DOMAIN sent :
       sent'[k] > sent[k] => \A j \in DOMAIN sent : j > k => sent[j] = 0]_vars

\* C17: on the happy path every LeadSequenceState eventually is COMPLETED
\* at the last step, with one Outbox row and one handed-over email per step.
C17_HappyPathCompletes ==
  <>(\A id \in LeadStateIds :
       /\ lss[id].status = "COMPLETED"
       /\ lss[id].currentStep = MaxStepNumber(lss[id].sequenceId)
       /\ \A k \in 1..NSteps :
            /\ Cardinality({i \in OutboxIds :
                              /\ outbox[i].payload.lead_state_id = id
                              /\ outbox[i].payload.step_number = k}) = 1
            /\ sent[k] = 1)

\* C18: lastSentAt of a LeadSequenceState never decreases and is never set
\* back to null; every write sets it to the current time.
C18_LastSentAtMonotonic ==
  [][\A id \in LeadStateIds :
       /\ lss'[id].lastSentAt >= lss[id].lastSentAt
       /\ lss[id].lastSentAt # NULL => lss'[id].lastSentAt # NULL
       /\ lss'[id].lastSentAt # lss[id].lastSentAt => lss'[id].lastSentAt = now]_vars

\* C18 witness: lastSentAt was written for step 1 and, hours later, for the
\* last step.
C18_Witness ==
  \E id \in LeadStateIds :
    /\ lss[id].currentStep = NSteps
    /\ \A k \in DOMAIN advCount : advCount[k] = 1
    /\ lss[id].lastSentAt = now
    /\ lss[id].lastSentAt > outbox[1].createdAt

C20_ZeroRowsIsSuccess ==
  [][\A w \in Workers :
       (/\ wpc[w] = "processed"
        /\ ~AdvanceMatches(wmsg[w].content.lead_state_id)
        /\ wpc'[w] \notin {"processed", "idle"})
       => wpc'[w] = "success"]_vars

\* C21: a delivery whose content is not JSON or fails PendingLeadSchema goes
\* from the parse straight to the ack: the Worker holding it is never in
\* processLead, the advancement or the retry path, the step that ends the
\* delivery leaves the DLQ alone and puts nothing on the queue (but the
\* message itself when the connection closes before the ack), no step of
\* the delivery changes a LeadSequenceState or hands an email over, and no
\* such message carries x-retries or is in the DLQ.
C21_MalformedAcked ==
  /\ [](/\ \A w \in Workers :
             (wpc[w] # "idle" /\ ~parseAndValidateMessage(wmsg[w].content))
             => wpc[w] = "success"
        /\ \A m \in BagToSet(queue) :
             ~parseAndValidateMessage(m.content) => XRetries(m) = 0
        /\ \A m \in BagToSet(dlq) : parseAndValidateMessage(m.content))
  /\ [][\A w \in Workers :
          /\ (/\ wpc[w] = "idle" /\ wpc'[w] # "idle"
              /\ ~parseAndValidateMessage(wmsg'[w].content))
             => lss' = lss /\ sent' = sent /\ advCount' = advCount
          /\ (/\ wpc[w] # "idle" /\ wpc'[w] # wpc[w]
              /\ ~parseAndValidateMessage(wmsg[w].content))
             => /\ wpc'[w] = "idle"
                /\ lss' = lss /\ sent' = sent /\ advCount' = advCount
                /\ dlq' = dlq
                /\ queue' \in {queue, queue (+) SetToBag({wmsg[w]})}]_vars

\* C21 witness: every malformed message was published and none other; all of
\* them are gone from the queue with every Worker idle again.
C21_Witness ==
  /\ foreign = MalformedMessages
  /\ queue = EmptyBag
  /\ \A w \in Workers : wpc[w] = "idle"

\* The Outbox rows of a LeadSequenceState.
RowsOf(id) == {i \in OutboxIds : outbox[i].payload.lead_state_id = id}

\* C22: the Outbox row of the enqueue transaction and its update of the
\* LeadSequenceState are visible together or not at all: while only
\* Schedulers run, a state has a row exactly if it is RUNNING with updatedAt
\* not before the row's createdAt, a state without a row is as it was
\* enrolled, no step shows one of the two writes without the other, and a
\* failure after the INSERT leaves both tables as they were.
C22_EnqueueAtomic ==
  /\ [](\A id \in LeadStateIds :
          IF RowsOf(id) = {}
          THEN lss[id] = InitialState(id)
          ELSE /\ lss[id].status = "RUNNING"
               /\ \A i \in RowsOf(id) : lss[id].updatedAt >= outbox[i].createdAt)
  /\ [][/\ outbox' # outbox <=> lss' # lss
        /\ \A s \in Schedulers :
             (spc[s] = "inserted" /\ spc'[s] = "aborted")
             => outbox' = outbox /\ lss' = lss]_vars

\* C22 witness: the transaction of one Scheduler failed after its INSERT,
\* and the other Scheduler, whose INSERT of the same key had to wait for it,
\* has committed the row and the update.
C22_Witness ==
  /\ \E s \in Schedulers : spc[s] = "aborted"
  /\ \E t \in Schedulers : spc[t] = "tick"
  /\ Len(outbox) = 1
  /\ \A id \in LeadStateIds : lss[id].status = "RUNNING" /\ lss[id].updatedAt = now

\* C23: a handleBatch whose count query finds the idemKey of its lead leaves
\* that lead and goes on: the Scheduler is next at the following lead of the
\* batch or, after the last lead, at the head of its loop, and no table has
\* changed.
C23_AbortAffectsOnlyLead ==
  [][\A s \in Schedulers :
       (/\ spc[s] = "batch"
        /\ CountIdemKey(handleBatchIdemKey(Head(sbatch[s]))) > 0
        /\ spc'[s] # spc[s])
       => /\ spc'[s] = (IF Len(sbatch[s]) = 1 THEN "tick" ELSE "batch")
          /\ sbatch'[s] = Tail(sbatch[s])
          /\ outbox' = outbox /\ lss' = lss]_vars

\* C24: a Worker process exits on a signal only when it holds no delivery:
\* a handler in flight has finished and its delivery is acked or rejected
\* before the exit, so no exit happens between the hand-over of the email
\* and the advancement.
C24_ShutdownWaitsForHandler ==
  [][\A w \in Workers :
       (wpc[w] # "exited" /\ wpc'[w] = "exited") => wpc[w] = "idle"]_vars

\* C25: the idemKey of every Outbox row is H(sequenceId, leadId,
\* currentStep + 1, 0, ""): the key is made from the stepNumber of the joined
\* step, the step about to be sent.
C25_KeyedByNextStep ==
  \A i \in OutboxIds :
    LET lead == outbox[i].payload IN
    /\ lead.step_number = lead.current_step + 1
    /\ outbox[i].idemKey =
         makeIdemKey(lead.sequence_id, lead.lead_id, lead.step_number, 0, "")

\* C26: getPendingLeads never returns a LeadSequenceState whose updatedAt is
\* less than one hour old: a state that a Scheduler has set to RUNNING is in
\* no batch taken before an hour has passed since its last update.
C26_InFlightGuard ==
  [][\A s \in Schedulers :
       (spc[s] = "tick" /\ spc'[s] = "batch")
       => \A k \in DOMAIN sbatch'[s] :
            now - lss[sbatch'[s][k].lead_state_id].updatedAt >= 1]_vars

C28_StatusTransitions ==
  [][\A id \in LeadStateIds :
       LET a == lss[id].status
           b == lss'[id].status
           advanced == lss'[id].currentStep # lss[id].currentStep
       IN /\ a # b => <<a, b>> \in {<<"PENDING", "RUNNING">>, <<"RUNNING", "COMPLETED">>}
          /\ (a = "PENDING" /\ b = "RUNNING")
             => Len(outbox') = Len(outbox) + 1 /\ ~advanced
          /\ (a = "RUNNING" /\ b = "COMPLETED") => advanced
          /\ advanced => a = "RUNNING" /\ b \in {"RUNNING", "COMPLETED"} /\ outbox' = outbox
          /\ b \notin {"PAUSED", "FAILED"}]_vars

\* C28 witness: the enrollment went PENDING, RUNNING, COMPLETED: every step
\* has its Outbox row, each published once, and nothing is in the DLQ.
C28_Witness ==
  /\ \A id \in LeadStateIds :
       lss[id].status = "COMPLETED" /\ lss[id].currentStep = NSteps
  /\ Len(outbox) = NSteps
  /\ \A i \in OutboxIds : pubCount[i] = 1
  /\ dlq = EmptyBag

\* C29: currentStep, lastSentAt and failureCount of a LeadSequenceState
\* change only in the advancement of a Worker whose processLead has handed
\* the email over; the enqueue of a Scheduler changes status and updatedAt
\* alone; no step of a Pump changes a LeadSequenceState; a Worker step into
\* or out of the retry and DLQ path changes none.
C29_OnlyAdvancementMovesStep ==
  [][\A id \in LeadStateIds :
       LET moved == \/ lss'[id].currentStep # lss[id].currentStep
                    \/ lss'[id].lastSentAt # lss[id].lastSentAt
                    \/ lss'[id].failureCount # lss[id].failureCount
       IN /\ moved
             => \E w \in Workers :
                  /\ wpc[w] = "processed" /\ wpc'[w] = "success"
                  /\ wmsg[w].content.lead_state_id = id
                  /\ sent[wmsg[w].content.step_number] >= 1
          /\ outbox' # outbox
             => lss'[id] = [lss[id] EXCEPT !.status = lss'[id].status,
                                           !.updatedAt = lss'[id].updatedAt]
          /\ (\E p \in Pumps : ppc'[p] # ppc[p]) => lss'[id] = lss[id]
          /\ (\E w \in Workers : wpc'[w] # wpc[w] /\ "failed" \in {wpc[w], wpc'[w]})
             => lss'[id] = lss[id]]_vars

\* C29 witness: a delivery of the step-1 message ended in the retry path,
\* a later one advanced the state, and the row of step 2 is enqueued.
C29_Witness ==
  /\ Len(republished[1]) >= 1
  /\ advCount[1] = 1
  /\ Len(outbox) = 2
  /\ \A id \in LeadStateIds : lss[id].currentStep = 1 /\ lss[id].updatedAt > lss[id].lastSentAt

\* C30: an Outbox row has processedAt set exactly when it is processed, in
\* every state, claimed, handed over or after a call of revertOutbox, and
\* no step writes one of the two columns without the other.
C30_ProcessedAtWithProcessed ==
  /\ [](\A i \in OutboxIds : outbox[i].processed <=> outbox[i].processedAt # NULL)
  /\ [][\A i \in OutboxIds :
          outbox'[i].processed # outbox[i].processed
          <=> (outbox'[i].processedAt = NULL) # (outbox[i].processedAt = NULL)]_vars

\* C30 witness: both Pumps are idle again; one row was handed to the
\* broker, for another the hand-off failed and revertOutbox was called, and
\* a row at maxRetries was never claimed.
C30_Witness ==
  /\ \A p \in Pumps : ppc[p] = "idle"
  /\ \E i, j, k \in OutboxIds :
       /\ pubState[i] = "published" /\ outbox[i].processed
       /\ pubState[j] = "reverted"
       /\ pubState[k] = "new" /\ ~outbox[k].processed

\* The copies of a message the broker has: ready on the queue or delivered
\* and unacknowledged.
BrokerCopies(content) ==
  BagCardinality([m \in {x \in BagToSet(queue) : x.content = content} |-> queue[m]])
  + Cardinality({w \in Workers : wpc[w] \notin {"idle", "exited"} /\ wmsg[w].content = content})

\* C31: in the retry path sendToQueue comes before the ack: the step after
\* the failure puts the copy with x-retries + 1 on the queue and leaves the
\* failed delivery unacknowledged, the ack that follows leaves the queue
\* alone, a crash between the two puts the failed delivery back next to the
\* copy, and with a delivery in the retry path the broker has a copy of its
\* message.
C31_RepublishBeforeAck ==
  /\ [](\A w \in Workers :
          wpc[w] \in {"failed", "republished"} => BrokerCopies(wmsg[w].content) >= 1)
  /\ [][\A w \in Workers :
          /\ (wpc[w] = "failed" /\ ShouldRetry(XRetries(wmsg[w])) /\ wpc'[w] # wpc[w])
             => \/ /\ wpc'[w] = "republished" /\ wmsg'[w] = wmsg[w]
                   /\ queue' = queue (+) SetToBag({RetryCopy(wmsg[w])})
                \/ wpc'[w] = "idle" /\ queue' = queue (+) SetToBag({wmsg[w]})
          /\ (wpc[w] = "republished" /\ wpc'[w] # wpc[w])
             => /\ wpc'[w] = "idle"
                /\ queue' \in {queue, queue (+) SetToBag({wmsg[w]})}
                /\ BrokerCopies(wmsg[w].content) >= 1
                /\ dlq' = dlq]_vars

\* C31 witness: a Worker crashed between sendToQueue and ack: the failed
\* delivery and its copy with x-retries + 1 are both on the queue, no Worker
\* holds a delivery, and the message was published once from outside.
C31_Witness ==
  /\ \A w \in Workers : wpc[w] = "idle"
  /\ foreign = {WellFormedMessage}
  /\ republished[1] = <<1>>
  /\ queue = SetToBag({NewMessage(WellFormedMessage),
                       RetryCopy(NewMessage(WellFormedMessage))})

\* C32: a call of sendEmail invokes the provider at most retryAttempts times,
\* returns at the first invocation that succeeds, waits retryDelay times the
\* attempt number after each failed attempt except the last, and returns a
\* failure result, never an exception, when every attempt failed.
C32_SendWithRetry ==
  /\ es.calls <= es.retryAttempts
  /\ es.calls = Len(es.outcomes)
  /\ \A n \in 1..Len(es.outcomes) :
       es.outcomes[n] = "ok" => n = Len(es.outcomes) /\ es.pc = "returned" /\ es.result = "success"
  /\ Len(es.waits) <= Len(es.outcomes)
  /\ \A n \in 1..Len(es.outcomes) :
       (es.outcomes[n] # "ok" /\ n < es.retryAttempts)
         => (n <= Len(es.waits) /\ es.waits[n] = es.retryDelay * n)
  /\ \A n \in 1..Len(es.waits) : n < es.retryAttempts /\ es.outcomes[n] # "ok"
  /\ es.pc = "returned"
       => /\ es.result \in {"success", "failure"}
          /\ es.result = "success" <=> (es.calls > 0 /\ es.outcomes[es.calls] = "ok")
          /\ (es.result = "failure" /\ es.calls > 0) => es.calls = es.retryAttempts
  /\ es.pc # "returned" => es.result = "none"

C32_Witness ==
  /\ es.pc = "returned"
  /\ es.result = "failure"
  /\ es.retryAttempts = retryAttemptsDefault
  /\ es.outcomes = <<"fail", "throw", "fail">>
  /\ es.waits = <<retryDelayDefault, 2 * retryDelayDefault>>


\* C33: at most one RabbitMQ instance is ever created in a process, also
\* when getInstance is called before an earlier call has finished connecting,
\* and all the callers get the same instance.
C33_OneInstance ==
  /\ rmq.created <= 1
  /\ \A c, d \in Callers :
       (rmq.pc[c] = "returned" /\ rmq.pc[d] = "returned") => rmq.got[c] = rmq.got[d]

\* The special function registered for a key, under the case rule of the
\* configuration; NoFunction when there is none.
NoFunction == "no function"

RegisteredFor(key, config) ==
  IF \E name \in specialVariables : normalizeKey(name, config) = normalizeKey(key, config)
  THEN CHOOSE name \in specialVariables : normalizeKey(name, config) = normalizeKey(key, config)
  ELSE NoFunction

\* The first available of: variable (non-empty), special function, fallback
\* literal, empty string.
FirstAvailable(match, variables, config, clock) ==
  LET normalized == normalizeKey(match.key, config) IN
  IF normalized \in DOMAIN variables /\ variables[normalized] # <<>>
  THEN variables[normalized]
  ELSE IF config.enableSpecialVariables /\ RegisteredFor(match.key, config) # NoFunction
       THEN SpecialResult(RegisteredFor(match.key, config), match.fallback, variables, config, clock)
       ELSE IF match.fallback # Undefined THEN <<Text(match.fallback)>> ELSE <<>>

RECURSIVE Substituted(_, _, _, _)
Substituted(template, variables, config, clock) ==
  IF template = <<>> THEN <<>>
  ELSE (IF IsMatch(Head(template))
        THEN FirstAvailable(Head(template), variables, config, clock)
        ELSE <<Head(template)>>)
       \o Substituted(Tail(template), variables, config, clock)

\* C34: every occurrence [[key]] or [[key || fallback]] is replaced by the
\* first available of the lead or custom variable of the key (when not
\* empty), the result of the special function registered for the key, the
\* fallback literal, the empty string; two runs at the same clock give the
\* same output.
C34_ResolutionOrder ==
  /\ \A i \in 1..Len(tp.runs) :
       tp.config.allowUndefinedVariables
         => tp.runs[i].output
              = Substituted(tp.template, getLeadVariables(tp.lead, tp.config), tp.config,
                            tp.runs[i].clock)
  /\ \A i, j \in 1..Len(tp.runs) :
       tp.runs[i].clock = tp.runs[j].clock => tp.runs[i].output = tp.runs[j].output

\* C35: with the default configuration a placeholder whose key is
\* currentYear in any letter case gives the year of the host clock, as
\* unsubscribe gives the unsubscribe link and firstName the lead's first name.
C35_KeysCaseInsensitive ==
  \A i \in 1..Len(tp.runs) :
    (/\ ~tp.config.caseSensitive
     /\ tp.config.enableSpecialVariables
     /\ tp.config.customVariables = {}
     /\ Len(tp.template) = 1
     /\ IsMatch(tp.template[1]))
    => LET key == ToLowerCase(tp.template[1].key) IN
       /\ (key = "firstname" /\ tp.lead.firstName # <<>>)
            => tp.runs[i].output = tp.lead.firstName
       /\ (key = "unsubscribe" /\ tp.config.unsubscribeBaseUrl # "")
            => tp.runs[i].output
                 = <<Text(tp.config.unsubscribeBaseUrl), Text("unsubscribe/")>> \o tp.lead.id
       /\ key = "currentyear"
            => tp.runs[i].output = <<Text(ToString(tp.runs[i].clock))>>

IsBracketed(piece) == piece.kind \in {"placeholder", "unmatched"}

\* C36: with allowUndefinedVariables = false the output has no [[...]] left,
\* each one that remained after the substitution is replaced by
\* undefinedVariableReplacement; with allowUndefinedVariables = true the
\* ones that remained are in the output unchanged.
C36_StrictMode ==
  \A i \in 1..Len(tp.runs) :
    LET substituted == processAdvancedSyntax(tp.template, getLeadVariables(tp.lead, tp.config),
                                             tp.config, tp.runs[i].clock) IN
    /\ ~tp.config.allowUndefinedVariables
         => /\ SelectSeq(tp.runs[i].output, IsBracketed) = <<>>
            /\ Len(tp.runs[i].output)
                 = Len(substituted)
                   + Len(SelectSeq(substituted, IsBracketed))
                     * (Len(tp.config.undefinedVariableReplacement) - 1)
    /\ tp.config.allowUndefinedVariables
         => SelectSeq(tp.runs[i].output, IsBracketed) = SelectSeq(tp.template, LAMBDA p : p = Unmatched)

C36_Witness ==
  /\ ~tp.config.allowUndefinedVariables
  /\ tp.config.undefinedVariableReplacement = <<Text("N/A")>>
  /\ tp.template = <<Text("Hi "), Unmatched>>
  /\ Len(tp.runs) = 1
  /\ tp.runs[1].output = <<Text("Hi "), Text("N/A")>>

\* C37: no step is skipped: every step up to currentStep of an enrollment
\* has been handed to the provider at least once.
C37_NoStepSkipped ==
  \A id \in LeadStateIds : \A k \in 1..NSteps : k <= lss[id].currentStep => sent[k] >= 1

\* The message for the next step of enrollment id is in the dead-letter queue.
NextStepDeadLettered(id) ==
  \E m \in BagToSet(dlq) :
    m.content.lead_state_id = id /\ m.content.current_step = lss[id].currentStep

\* C38: once the message for the next step of an enrollment is rejected to the
\* dead-letter queue the enrollment makes no further progress: its currentStep
\* never changes and no outbox row is inserted for it.
C38_NoProgressAfterDeadLetter ==
  [][\A id \in LeadStateIds :
       NextStepDeadLettered(id)
         => /\ lss'[id].currentStep = lss[id].currentStep
            /\ RowsOf(id)' = RowsOf(id)
            /\ Len(outbox') = Len(outbox)]_vars

\* C39: a delivery whose handler has returned or thrown is settled exactly
\* once: acked (after success, after a malformed payload, after the retry
\* copy is published) or rejected without requeue at x-retries = maxRetries;
\* it is never left unsettled, and a Worker that holds an unsettled delivery
\* takes no other. A step that puts the delivery itself back on the queue is
\* the broker's requeue after the death of the Worker process.
C39_SettledExactlyOnce ==
  /\ [](\A w \in Workers :
          /\ wpc[w] = "success" => ENABLED WorkerAck(w)
          /\ wpc[w] = "failed" => ENABLED (WorkerRetry(w) \/ WorkerReject(w))
          /\ (wpc[w] # "idle" /\ ~parseAndValidateMessage(wmsg[w].content))
               => wpc[w] = "success")
  /\ [][\A w \in Workers :
          /\ (wpc[w] # "idle" /\ wmsg'[w] # wmsg[w])
               => /\ wpc'[w] = "idle" /\ wmsg'[w] = NoMessage
                  /\ \/ queue' = queue (+) SetToBag({wmsg[w]}) /\ dlq' = dlq
                     \/ wpc[w] = "success" /\ queue' = queue /\ dlq' = dlq
                     \/ /\ wpc[w] = "failed" /\ XRetries(wmsg[w]) < maxRetries
                        /\ queue' = queue (+) SetToBag({RetryCopy(wmsg[w])})
                        /\ dlq' = dlq
                     \/ /\ wpc[w] = "failed" /\ XRetries(wmsg[w]) >= maxRetries
                        /\ queue' = queue
                        /\ dlq' = dlq (+) SetToBag({wmsg[w]})
          /\ (wpc[w] # "idle" /\ wmsg'[w] = wmsg[w])
               => /\ wpc'[w] # "idle"
                  /\ (wpc'[w] # wpc[w] => queue' = queue /\ dlq' = dlq)]_vars

C39_Witness ==
  /\ \A w \in Workers : wpc[w] = "idle"
  /\ queue = EmptyBag
  /\ republished[1] = <<1, 2, 3>>
  /\ foreign = {WellFormedMessage, NotJson}
  /\ dlq = SetToBag({[content |-> WellFormedMessage, headers |-> <<maxRetries>>]})

\* C40: the Scheduler commits an outbox row for an enrollment only if the
\* UPDATE of the same transaction matched its state, that is the status was
\* PENDING or RUNNING at the commit: no row is created for a state that became
\* COMPLETED, PAUSED or FAILED after the eligibility query.
C40_RowOnlyWithMatchedUpdate ==
  [][\A id \in LeadStateIds :
       RowsOf(id)' # RowsOf(id) => lss[id].status \in {"PENDING", "RUNNING"}]_vars

====
